---- MODULE Spec2Model ----
(***************************************************************************)
(* Process Geometry Renderer (p5geometry): the scene evaluation engine.    *)
(*                                                                         *)
(* JavaScript numbers are modelled as exact rationals [n, d] with d > 0    *)
(* and gcd(n, d) = 1; NaN is the record with d = 0.  Every input of the    *)
(* model is a small integer or a dyadic fraction, on which IEEE double     *)
(* arithmetic is exact, so the rational result is the value the program    *)
(* computes.                                                               *)
(***************************************************************************)
EXTENDS Integers, Sequences, FiniteSets, TLC

(***************************************************************************)
(* Numbers                                                                 *)
(***************************************************************************)
Abs(i) == IF i < 0 THEN -i ELSE i

RECURSIVE Gcd(_, _)
Gcd(a, b) == IF b = 0 THEN a ELSE Gcd(b, a % b)

NaN == [n |-> 0, d |-> 0]

IsNaN(a) == a.d = 0

\* const name = value; body -- the value is computed once, before body, and
\* named in body
Bind(value, Body(_)) == CHOOSE result \in {Body(v) : v \in {value}} : TRUE

Rat(n, d) ==
    IF d = 0 THEN NaN
    ELSE Bind(Gcd(Abs(n), Abs(d)),
              LAMBDA g : IF d < 0 THEN [n |-> (-n) \div g, d |-> (-d) \div g]
                         ELSE [n |-> n \div g, d |-> d \div g])

Num(i) == [n |-> i, d |-> 1]

IsNumber(v) == DOMAIN v = {"n", "d"}

RAdd(a, b) == IF IsNaN(a) \/ IsNaN(b) THEN NaN ELSE Rat(a.n * b.d + b.n * a.d, a.d * b.d)

RNeg(a) == [n |-> -a.n, d |-> a.d]

RSub(a, b) == RAdd(a, RNeg(b))

RMul(a, b) == IF IsNaN(a) \/ IsNaN(b) THEN NaN ELSE Rat(a.n * b.n, a.d * b.d)

RDiv(a, b) == IF IsNaN(a) \/ IsNaN(b) THEN NaN ELSE Rat(a.n * b.d, a.d * b.n)

\* comparisons with NaN are false, as in JavaScript
RLt(a, b) == ~IsNaN(a) /\ ~IsNaN(b) /\ a.n * b.d < b.n * a.d

RLe(a, b) == ~IsNaN(a) /\ ~IsNaN(b) /\ a.n * b.d <= b.n * a.d

RGt(a, b) == RLt(b, a)

RGe(a, b) == RLe(b, a)

\* Math.floor
RFloor(a) == IF IsNaN(a) THEN NaN ELSE Num(a.n \div a.d)

\* truncation toward zero
RTrunc(a) == IF IsNaN(a) THEN NaN
             ELSE IF a.n >= 0 THEN Num(a.n \div a.d) ELSE Num(-((-a.n) \div a.d))

\* the JavaScript remainder a % b: sign of the dividend
JsRem(a, b) == IF IsNaN(a) \/ IsNaN(b) \/ b.n = 0 THEN NaN
               ELSE RSub(a, RMul(b, RTrunc(RDiv(a, b))))

\* Math.min / Math.max of two numbers (NaN is contagious)
RMin(a, b) == IF IsNaN(a) \/ IsNaN(b) THEN NaN ELSE IF RLe(a, b) THEN a ELSE b

RMax(a, b) == IF IsNaN(a) \/ IsNaN(b) THEN NaN ELSE IF RGe(a, b) THEN a ELSE b

Vec(x, y) == [x |-> x, y |-> y]

\* an array given element by element, as a sequence
Array(f) == f \o <<>>

\* an object given property by property, as a record
Object(f) == f @@ <<>>

IVec(i, j) == Vec(Num(i), Num(j))

isVec2(v) == {"x", "y"} \subseteq DOMAIN v

lerp(a, b, u) == RAdd(a, RMul(RSub(b, a), u))

(***************************************************************************)
(* Param evaluation (core/params.js)                                       *)
(***************************************************************************)
interpolateValue(a, b, u) ==
    IF IsNumber(a) /\ IsNumber(b) THEN lerp(a, b, u)
    ELSE IF isVec2(a) /\ isVec2(b) THEN Vec(lerp(a.x, b.x, u), lerp(a.y, b.y, u))
    ELSE IF RLt(u, Rat(1, 2)) THEN a ELSE b

\* the while loop of evaluateKeyframes: the index of the bracketing segment
RECURSIVE segmentIndex(_, _, _)
segmentIndex(keyframes, t, i) ==
    IF i < Len(keyframes) - 1 /\ RLt(keyframes[i + 2].t, t)
    THEN segmentIndex(keyframes, t, i + 1)
    ELSE i

\* the part of evaluateKeyframes after the two extrapolation tests
interpolateKeyframes(keyframes, interpolation, t) ==
    LET i == segmentIndex(keyframes, t, 0)
        k0 == keyframes[i + 1]
        k1 == keyframes[i + 2]
    IN  Bind(RSub(k1.t, k0.t), LAMBDA span :
        Bind(IF span.n = 0 THEN Num(0) ELSE RDiv(RSub(t, k0.t), span), LAMBDA localT :
        IF interpolation = "step" THEN k0.value
        ELSE interpolateValue(k0.value, k1.value,
                              IF interpolation = "smooth"
                              THEN RMul(RMul(localT, localT), RSub(Num(3), RMul(Num(2), localT)))
                              ELSE localT)))

\* a raised Error
Thrown(message) == [error |-> message]

IsThrown(v) == DOMAIN v = {"error"}

RECURSIVE evaluateKeyframes(_, _)

\* valueAtRepeatedTime: the param handed to the recursive call carries the
\* keyframes and extrapolation 'clamp' only
valueAtRepeatedTime(keyframes, t) ==
    LET first == keyframes[1]
        last == keyframes[Len(keyframes)]
    IN  Bind(RSub(last.t, first.t), LAMBDA duration :
        IF duration.n = 0 THEN first.value
        ELSE Bind(RAdd(JsRem(RAdd(JsRem(RSub(t, first.t), duration), duration), duration),
                       first.t),
                  LAMBDA wrapped :
                      evaluateKeyframes([type |-> "keyframes", keyframes |-> keyframes,
                                         extrapolation |-> "clamp"], wrapped)))

\* evaluateKeyframes
evaluateKeyframes(param, t) ==
    LET keyframes == param.keyframes
        interpolation == IF "interpolation" \in DOMAIN param THEN param.interpolation
                         ELSE "linear"
        extrapolation == IF "extrapolation" \in DOMAIN param THEN param.extrapolation
                         ELSE "clamp"
    IN  IF Len(keyframes) = 0 THEN Thrown("Keyframes must not be empty")
        ELSE LET first == keyframes[1]
                 last == keyframes[Len(keyframes)]
             IN  IF (RLe(t, first.t) \/ RGe(t, last.t)) /\ extrapolation = "repeat"
                 THEN valueAtRepeatedTime(keyframes, t)
                 ELSE IF RLe(t, first.t) THEN first.value
                 ELSE IF RGe(t, last.t) THEN last.value
                 ELSE interpolateKeyframes(keyframes, interpolation, t)

\* a param that is undefined or null
missingParam(param) == DOMAIN param \in {{"undefined"}, {"null"}}

\* a param of an unrecognised type evaluated to nothing
lenientParam(param, t) ==
    IF missingParam(param) THEN [undefined |-> TRUE]
    ELSE IF param.type = "constant" THEN param.value
    ELSE [undefined |-> TRUE]

\* evaluateParam; the expr flavour (evaluateExpr) is left out
evaluateParam(param, t) ==
    IF missingParam(param) THEN Thrown("Param is required")
    ELSE CASE param.type = "constant" -> param.value
           [] param.type = "keyframes" -> evaluateKeyframes(param, t)
           [] param.type \notin {"constant", "keyframes", "expr"} ->
                 Thrown("Unknown param type")

Const(v) == [type |-> "constant", value |-> v]

(***************************************************************************)
(* 2D affine algebra (core/math.js).  A Mat3 is the column-major sequence  *)
(* of 9 numbers the program stores in an array: entry k of the array is    *)
(* element k + 1 of the sequence, the translation is m[7], m[8]            *)
(* (parentMatrix[6], parentMatrix[7] in the program).  Angles are counted  *)
(* in quarter turns (1 = PI / 2), the angles on which sine and cosine are  *)
(* rational.                                                               *)
(***************************************************************************)
Undefined == [undefined |-> TRUE]

IsUndefined(v) == DOMAIN v = {"undefined"}

\* the number a value stands for in an arithmetic expression: an object
\* that is not a number converts to NaN
ToNumber(v) == IF IsNumber(v) THEN v ELSE NaN

mat3Identity == <<Num(1), Num(0), Num(0), Num(0), Num(1), Num(0), Num(0), Num(0), Num(1)>>

mat3Translate(x, y) ==
    <<Num(1), Num(0), Num(0), Num(0), Num(1), Num(0), ToNumber(x), ToNumber(y), Num(1)>>

mat3Scale(sx, sy) ==
    <<ToNumber(sx), Num(0), Num(0), Num(0), ToNumber(sy), Num(0), Num(0), Num(0), Num(1)>>

Cos(q) == IF IsNaN(q) \/ q.d # 1 THEN NaN
          ELSE CASE q.n % 4 = 0 -> Num(1)
                 [] q.n % 4 = 2 -> Num(-1)
                 [] OTHER -> Num(0)

Sin(q) == IF IsNaN(q) \/ q.d # 1 THEN NaN
          ELSE CASE q.n % 4 = 1 -> Num(1)
                 [] q.n % 4 = 3 -> Num(-1)
                 [] OTHER -> Num(0)

mat3Rotate(q) ==
    <<Cos(q), Sin(q), Num(0), RNeg(Sin(q)), Cos(q), Num(0), Num(0), Num(0), Num(1)>>

\* the product a . b: (a . b)[row i, column j] = SUM_k a[i, k] * b[k, j]
mat3Entry(a, b, i, j) ==
    RAdd(RAdd(RMul(a[i + 1], b[3 * j + 1]), RMul(a[i + 4], b[3 * j + 2])),
         RMul(a[i + 7], b[3 * j + 3]))

\* entry k of the column-major array is row (k - 1) % 3 of column (k - 1) \div 3
mat3Multiply(a, b) ==
    Array([k \in 1 .. 9 |-> mat3Entry(a, b, (k - 1) % 3, (k - 1) \div 3)])

\* M . [x, y, 1]
applyMat3(m, p) ==
    Vec(RAdd(RAdd(RMul(m[1], p.x), RMul(m[4], p.y)), m[7]),
        RAdd(RAdd(RMul(m[2], p.x), RMul(m[5], p.y)), m[8]))

RECURSIVE foldMin(_, _, _)
foldMin(points, k, acc) ==
    IF k > Len(points) THEN acc
    ELSE foldMin(points, k + 1, Vec(RMin(acc.x, points[k].x), RMin(acc.y, points[k].y)))

RECURSIVE foldMax(_, _, _)
foldMax(points, k, acc) ==
    IF k > Len(points) THEN acc
    ELSE foldMax(points, k + 1, Vec(RMax(acc.x, points[k].x), RMax(acc.y, points[k].y)))

Null == [null |-> TRUE]

IsNull(v) == DOMAIN v = {"null"}

computeBounds(points) ==
    IF Len(points) = 0 THEN Null
    ELSE [min |-> foldMin(points, 2, points[1]), max |-> foldMax(points, 2, points[1])]

(***************************************************************************)
(* Transform composition (core/transform.js)                               *)
(***************************************************************************)
Has(rec, field) == field \in DOMAIN rec

\* the keys of a TransformSpec in the order evaluateTransform reads them;
\* shear is left out: no scene of the model carries one, and mat3Shear is
\* defined in core/math.js
TransformKeys == <<"translate", "rotate", "scale", "matrix">>

\* the matrix evaluateTransform pushes onto operations for the evaluated
\* param of one key
operationOf(key, value) ==
    CASE key = "translate" -> mat3Translate(value.x, value.y)
      [] key = "rotate" -> mat3Rotate(value)
      [] key = "scale" -> mat3Scale(IF IsNumber(value) THEN value ELSE value.x,
                                    IF IsNumber(value) THEN value ELSE value.y)
      [] key = "matrix" -> value

\* operations.reduce(mat3Multiply, mat3Identity()) over the operations of
\* the keys from k on, acc being the product of the operations before them
RECURSIVE reduceMultiply(_, _, _, _)
reduceMultiply(spec, t, k, acc) ==
    IF k > Len(TransformKeys) THEN acc
    ELSE IF Has(spec, TransformKeys[k])
    THEN reduceMultiply(spec, t, k + 1,
                        mat3Multiply(acc, operationOf(TransformKeys[k],
                                                      evaluateParam(spec[TransformKeys[k]], t))))
    ELSE reduceMultiply(spec, t, k + 1, acc)

\* evaluateTransform for specs made of translate, rotate, scale and matrix
evaluateTransform(spec, t) ==
    IF IsUndefined(spec) THEN mat3Identity
    ELSE reduceMultiply(spec, t, 1, mat3Identity)

transformPoints(matrix, points) ==
    Array([k \in 1 .. Len(points) |-> applyMat3(matrix, points[k])])

(***************************************************************************)
(* Geometry evaluation (core/geometry.js)                                  *)
(***************************************************************************)
\* the geometry types geometryToPoints has a case for
GeometryTypes == {"point", "line", "polyline", "polygon", "rect", "circle"}

\* geometryToPoints; the circle case (32 points on the circle) is left out
geometryToPoints(geometry) ==
    CASE geometry.type \notin GeometryTypes -> Thrown("Unsupported geometry type")
      [] geometry.type = "point" -> <<IVec(0, 0)>>
      [] geometry.type \in {"line", "polyline", "polygon"} -> geometry.points
      [] geometry.type = "rect" ->
            LET width == ToNumber(geometry.width)
                height == ToNumber(geometry.height)
                corners(x0, y0, x1, y1) == <<Vec(x0, y0), Vec(x1, y0), Vec(x1, y1), Vec(x0, y1)>>
            IN  corners(RDiv(RNeg(width), Num(2)), RDiv(RNeg(height), Num(2)),
                        RDiv(width, Num(2)), RDiv(height, Num(2)))

\* an Error raised by geometryToPoints leaves evaluatePrimitiveGeometry
\* before the transform is evaluated
evaluatePrimitiveGeometry(geometry, transform, t) ==
    IF geometry.type \notin GeometryTypes THEN geometryToPoints(geometry)
    ELSE
    Bind(transformPoints(evaluateTransform(transform, t), geometryToPoints(geometry)),
         LAMBDA worldPoints :
             [type |-> geometry.type, points |-> worldPoints,
              bounds |-> computeBounds(worldPoints)])

(***************************************************************************)
(* Scene evaluation (system/evaluator.js).                                 *)
(*                                                                         *)
(* The working state of one evaluateScene call is a record                 *)
(* [objects, warnings]: the working object list and RenderResult.warnings. *)
(* The program's working list is [...scene.objects] followed by the clones *)
(* it appends, so its first Len(scene.objects) entries ARE the caller's    *)
(* objects (the same references).  A warning is the record [text, ids] of  *)
(* its message template and the ids interpolated into it.  An absent id    *)
(* (undefined) is the empty string.                                        *)
(***************************************************************************)
Warning(text, ids) == [text |-> text, ids |-> ids]

Warn(w, text, ids) == [w EXCEPT !.warnings = Append(@, Warning(text, ids))]

\* byId.get(id): the Map is built from the list in order and updated by
\* byId.set for every clone, so the last entry with the id wins; 0 = none
RECURSIVE lastIndexOf(_, _, _)
lastIndexOf(objects, id, k) ==
    IF k = 0 THEN 0
    ELSE IF objects[k].id = id THEN k
    ELSE lastIndexOf(objects, id, k - 1)

\* a lookup that finds the first object under every id
firstObject(objects, id) == 1

byIdGet(objects, id) == lastIndexOf(objects, id, Len(objects))

\* JSON.parse(JSON.stringify(value)) of a number: NaN is written as null
jsonNumber(v) == IF IsNumber(v) /\ IsNaN(v) THEN Null ELSE v

jsonGeometry(geometry) ==
    CASE geometry.type = "rect" ->
            [geometry EXCEPT !.width = jsonNumber(@), !.height = jsonNumber(@)]
      [] geometry.type \in {"line", "polyline", "polygon"} ->
            [geometry EXCEPT !.points =
                Array([k \in 1 .. Len(@) |-> Vec(jsonNumber(@[k].x), jsonNumber(@[k].y))])]
      [] OTHER -> geometry

\* cloneObject: a deep copy through JSON with a new id.  Every caller
\* overwrites the transform and generatedBy of the copy.
cloneObject(object, newId) ==
    [object EXCEPT !.id = newId, !.geometry = jsonGeometry(@)]

matrixOnly(m) == [matrix |-> Const(m)]

\* a clone that keeps the transform of its source
pushCloneAsIs(w, source, newId, composed, by) ==
    [w EXCEPT !.objects = Append(@, [cloneObject(source, newId) EXCEPT !.generatedBy = by])]

\* objects.push(clone) of a clone with the composed matrix
pushClone(w, source, newId, composed, by) ==
    [w EXCEPT !.objects =
        Append(@, [cloneObject(source, newId) EXCEPT !.transform = matrixOnly(composed),
                                                     !.generatedBy = by])]

RECURSIVE instanceLoop(_, _, _, _, _, _)
instanceLoop(generator, w, source, baseMatrix, t, index) ==
    IF index >= Len(generator.params.transforms) THEN w
    ELSE Bind(evaluateTransform(generator.params.transforms[index + 1], t), LAMBDA instMatrix :
         Bind(mat3Multiply(baseMatrix, instMatrix), LAMBDA composed :
         Bind(source.id \o "__inst_" \o generator.id \o "_" \o ToString(index), LAMBDA newId :
         instanceLoop(generator, pushClone(w, source, newId, composed, generator.id),
                      source, baseMatrix, t, index + 1))))

expandInstanceGenerator(generator, w, t) ==
    LET sourceId == IF Len(generator.inputIds) > 0 THEN generator.inputIds[1] ELSE ""
        src == byIdGet(w.objects, sourceId)
    IN  IF src = 0
        THEN Warn(w, "InstanceGenerator % missing source %", <<generator.id, sourceId>>)
        ELSE IF ~Has(generator, "params") \/ ~Has(generator.params, "transforms")
                \/ Len(generator.params.transforms) = 0
        THEN Warn(w, "InstanceGenerator % has no transforms", <<generator.id>>)
        ELSE instanceLoop(generator, w, w.objects[src],
                          evaluateTransform(w.objects[src].transform, t), t, 0)

\* generator.params?.sourceId || generator.inputIds?.[0]
generatorSourceId(generator) ==
    IF Has(generator, "params") /\ Has(generator.params, "sourceId")
       /\ generator.params.sourceId # ""
    THEN generator.params.sourceId
    ELSE IF Has(generator, "inputIds") /\ Len(generator.inputIds) > 0
    THEN generator.inputIds[1]
    ELSE ""

\* the body of the two nested loops of expandGridGenerator, from cell (i, j)
RECURSIVE gridLoop(_, _, _, _, _, _, _, _)
gridLoop(generator, w, source, baseMatrix, cellBase, t, i, j) ==
    LET range == generator.params.range
        a == generator.params.a
        b == generator.params.b
    IN  IF i > range.i[2] THEN w
        ELSE IF j > range.j[2]
        THEN gridLoop(generator, w, source, baseMatrix, cellBase, t, i + 1, range.j[1])
        ELSE Bind(Vec(RAdd(RMul(a.x, Num(i)), RMul(b.x, Num(j))),
                      RAdd(RMul(a.y, Num(i)), RMul(b.y, Num(j)))), LAMBDA offset :
             Bind(evaluateTransform([translate |-> Const(offset)], t), LAMBDA translate :
             Bind(mat3Multiply(baseMatrix, mat3Multiply(translate, cellBase)), LAMBDA composed :
             Bind(source.id \o "__grid_" \o generator.id \o "_" \o ToString(i)
                      \o "_" \o ToString(j), LAMBDA newId :
             gridLoop(generator, pushClone(w, source, newId, composed, generator.id),
                      source, baseMatrix, cellBase, t, i, j + 1)))))

expandGridGenerator(generator, w, t) ==
    IF ~Has(generator, "params") \/ ~Has(generator.params, "a")
       \/ ~Has(generator.params, "b") \/ ~Has(generator.params, "range")
    THEN Warn(w, "GridGenerator % missing required params", <<generator.id>>)
    ELSE LET sourceId == generatorSourceId(generator)
             src == IF sourceId # "" THEN byIdGet(w.objects, sourceId) ELSE 0
         IN  IF src = 0
             THEN Warn(w, "GridGenerator % missing source", <<generator.id>>)
             ELSE Bind(w.objects[src], LAMBDA source :
                  Bind(evaluateTransform(source.transform, t), LAMBDA baseMatrix :
                  Bind(IF Has(generator.params, "cellTransform")
                       THEN evaluateTransform(generator.params.cellTransform, t)
                       ELSE mat3Identity, LAMBDA cellBase :
                  gridLoop(generator, w, source, baseMatrix, cellBase, t,
                           generator.params.range.i[1], generator.params.range.j[1]))))

\* the loop of expandRadialGenerator; angles in quarter turns
RECURSIVE radialLoop(_, _, _, _, _, _, _, _)
radialLoop(generator, w, source, baseMatrix, start, step, t, i) ==
    IF i >= generator.params.count THEN w
    ELSE LET center == IF Has(generator.params, "center") THEN generator.params.center
                       ELSE IVec(0, 0)
             radius == generator.params.radius
         IN  Bind(RAdd(start, RMul(step, Num(i))), LAMBDA angle :
             Bind(Vec(RAdd(center.x, RMul(Cos(angle), radius)),
                      RAdd(center.y, RMul(Sin(angle), radius))), LAMBDA value :
             Bind(evaluateTransform([translate |-> Const(value)], t), LAMBDA instMat :
             Bind(mat3Multiply(baseMatrix, instMat), LAMBDA composed :
             Bind(source.id \o "__radial_" \o generator.id \o "_" \o ToString(i), LAMBDA newId :
             radialLoop(generator, pushClone(w, source, newId, composed, generator.id),
                        source, baseMatrix, start, step, t, i + 1))))))

\* expandRadialGenerator; params.count is an integer, params.radius a number
expandRadialGenerator(generator, w, t) ==
    IF ~Has(generator, "params") \/ ~Has(generator.params, "count")
       \/ ~Has(generator.params, "radius")
    THEN Warn(w, "RadialGenerator % missing count or radius", <<generator.id>>)
    ELSE LET sourceId == generatorSourceId(generator)
             src == IF sourceId # "" THEN byIdGet(w.objects, sourceId) ELSE 0
         IN  IF src = 0
             THEN Warn(w, "RadialGenerator % missing source", <<generator.id>>)
             ELSE LET count == generator.params.count
                      start == IF Has(generator.params, "angleRange")
                               THEN generator.params.angleRange[1] ELSE Num(0)
                      end == IF Has(generator.params, "angleRange")
                             THEN generator.params.angleRange[2] ELSE Num(4)
                  IN  Bind(IF count > 1 THEN RDiv(RSub(end, start), Num(count - 1))
                           ELSE Num(0), LAMBDA step :
                      radialLoop(generator, w, w.objects[src],
                                 evaluateTransform(w.objects[src].transform, t),
                                 start, step, t, 0))

expandOneGenerator(generator, w, t) ==
    CASE generator.type = "instance" -> expandInstanceGenerator(generator, w, t)
      [] generator.type = "grid" -> expandGridGenerator(generator, w, t)
      [] generator.type = "radial" -> expandRadialGenerator(generator, w, t)
      [] OTHER -> Warn(w, "Generator % (%) not implemented", <<generator.id, generator.type>>)

\* a loop that ends after the generator at k
firstGeneratorOnly(generators, w, t, k) ==
    IF k > Len(generators) THEN w ELSE expandOneGenerator(generators[k], w, t)

RECURSIVE generatorsLoop(_, _, _, _)
generatorsLoop(generators, w, t, k) ==
    IF k > Len(generators) THEN w
    ELSE generatorsLoop(generators, expandOneGenerator(generators[k], w, t), t, k + 1)

\* expandGenerators: the working list starts as [...baseObjects]
expandGenerators(generators, baseObjects, t, warnings) ==
    generatorsLoop(generators, [objects |-> baseObjects, warnings |-> warnings], t, 1)

\* Math.hypot and Math.atan2 (in quarter turns) on axis-parallel vectors
Hypot(x, y) == IF x.n = 0 THEN [n |-> Abs(y.n), d |-> y.d]
               ELSE IF y.n = 0 THEN [n |-> Abs(x.n), d |-> x.d]
               ELSE NaN

Atan2(y, x) == CASE IsNaN(x) \/ IsNaN(y) -> NaN
                 [] y.n = 0 /\ x.n >= 0 -> Num(0)
                 [] y.n = 0 /\ x.n < 0 -> Num(2)
                 [] x.n = 0 /\ y.n > 0 -> Num(1)
                 [] x.n = 0 /\ y.n < 0 -> Num(-1)
                 [] OTHER -> NaN

\* matMultiplySafe: mat3Multiply does not raise on sequences of 9 numbers
matMultiplySafe(a, b, relation) == mat3Multiply(a, b)

\* a parent inherited whole, whatever the flags
inheritAll(parentMatrix, params) == parentMatrix

composeInheritedParent(parentMatrix, params) ==
    LET inheritRotation == ~(Has(params, "inheritRotation") /\ params.inheritRotation = FALSE)
        inheritScale == ~(Has(params, "inheritScale") /\ params.inheritScale = FALSE)
        tx == parentMatrix[7]
        ty == parentMatrix[8]
        baseTranslate == mat3Translate(tx, ty)
        \* Math.hypot(...) || 1
        orOne(h) == IF IsNaN(h) \/ h.n = 0 THEN Num(1) ELSE h
        angle == Atan2(parentMatrix[2], parentMatrix[1])
    IN  IF inheritRotation /\ inheritScale THEN parentMatrix
        ELSE IF ~inheritRotation /\ ~inheritScale THEN baseTranslate
        ELSE Bind(IF inheritRotation THEN mat3Multiply(baseTranslate, mat3Rotate(angle))
                  ELSE baseTranslate, LAMBDA rotated :
             IF inheritScale
             THEN mat3Multiply(rotated,
                               mat3Scale(orOne(Hypot(parentMatrix[1], parentMatrix[2])),
                                         orOne(Hypot(parentMatrix[4], parentMatrix[5]))))
             ELSE rotated)

anchorPoint(bounds, anchor) ==
    IF anchor = "topLeft" THEN Vec(bounds.min.x, bounds.min.y)
    ELSE Vec(RDiv(RAdd(bounds.min.x, bounds.max.x), Num(2)),
             RDiv(RAdd(bounds.min.y, bounds.max.y), Num(2)))

\* Math.min(Math.floor(scaled), segments - 1) as an integer
segmentOf(scaled, segments) ==
    LET f == RFloor(scaled).n
    IN  IF f <= segments - 1 THEN f ELSE segments - 1

\* a placement that stops at the start of the segment
pointAtSegmentStart(points, u) ==
    IF Len(points) = 1 THEN points[1]
    ELSE points[segmentOf(RMul(u, Num(Len(points) - 1)), Len(points) - 1) + 1]

pointAlongPath(points, u) ==
    IF Len(points) = 1 THEN points[1]
    ELSE LET segments == Len(points) - 1
         IN  Bind(RMul(u, Num(segments)), LAMBDA scaled :
             Bind(segmentOf(scaled, segments), LAMBDA idx :
             Bind(RSub(scaled, Num(idx)), LAMBDA localT :
             LET p0 == points[idx + 1]
                 p1 == points[idx + 2]
             IN  Vec(RAdd(p0.x, RMul(RSub(p1.x, p0.x), localT)),
                     RAdd(p0.y, RMul(RSub(p1.y, p0.y), localT))))))

tangentDirection(points, u) ==
    IF Len(points) = 1 THEN IVec(1, 0)
    ELSE LET segments == Len(points) - 1
         IN  Bind(segmentOf(RMul(u, Num(segments)), segments), LAMBDA idx :
             LET nextIdx == IF idx + 1 <= Len(points) - 1 THEN idx + 1 ELSE Len(points) - 1
                 p0 == points[idx + 1]
                 p1 == points[nextIdx + 1]
             IN
             Bind(RSub(p1.x, p0.x), LAMBDA dx :
             Bind(RSub(p1.y, p0.y), LAMBDA dy :
             Bind(Hypot(dx, dy), LAMBDA h :
             Bind(IF IsNaN(h) \/ h.n = 0 THEN Num(1) ELSE h, LAMBDA length :
             Vec(RDiv(dx, length), RDiv(dy, length)))))))

setTransform(w, k, m) == [w EXCEPT !.objects[k].transform = matrixOnly(m)]

handleAttachRelation(relation, w, t) ==
    LET parent == byIdGet(w.objects, relation.targets.parentId)
        child == byIdGet(w.objects, relation.targets.childId)
    IN  IF parent = 0 \/ child = 0
        THEN Warn(w, "Attach relation % missing parent/child", <<relation.id>>)
        ELSE Bind(evaluateTransform(w.objects[parent].transform, t), LAMBDA parentMatrix :
             Bind(IF Has(relation.params, "offset")
                  THEN evaluateParam(relation.params.offset, t)
                  ELSE IVec(0, 0), LAMBDA offset :
             Bind(evaluateTransform([translate |-> Const(offset)], t), LAMBDA offsetMat :
             Bind(composeInheritedParent(parentMatrix, relation.params), LAMBDA effectiveParent :
             setTransform(w, child, matMultiplySafe(effectiveParent, offsetMat, relation))))))

handleAlignRelation(relation, w, t) ==
    LET ia == byIdGet(w.objects, relation.targets.aId)
        ib == byIdGet(w.objects, relation.targets.bId)
    IN  IF ia = 0 \/ ib = 0
        THEN Warn(w, "Align relation % missing targets", <<relation.id>>)
        ELSE IF w.objects[ia].kind # "primitive" \/ w.objects[ib].kind # "primitive"
        THEN Warn(w, "Align relation % currently supports primitive objects only",
                  <<relation.id>>)
        ELSE LET a == w.objects[ia]
                 b == w.objects[ib]
                 anchor == IF Has(relation.params, "anchor") THEN relation.params.anchor
                           ELSE "center"
             IN  Bind(evaluatePrimitiveGeometry(a.geometry, a.transform, t), LAMBDA aEval :
                 Bind(evaluatePrimitiveGeometry(b.geometry, b.transform, t), LAMBDA bEval :
                 IF IsNull(aEval.bounds) \/ IsNull(bEval.bounds) THEN w
                 ELSE
                 Bind(anchorPoint(aEval.bounds, anchor), LAMBDA aAnchor :
                 Bind(anchorPoint(bEval.bounds, anchor), LAMBDA bAnchor :
                 Bind(Vec(RSub(bAnchor.x, aAnchor.x), RSub(bAnchor.y, aAnchor.y)), LAMBDA delta :
                 Bind(evaluateTransform(a.transform, t), LAMBDA current :
                 Bind(evaluateTransform([translate |-> Const(delta)], t), LAMBDA offsetMat :
                 setTransform(w, ia, matMultiplySafe(current, offsetMat, relation)))))))))

handleFollowPathRelation(relation, w, t) ==
    LET io == byIdGet(w.objects, relation.targets.objectId)
        ip == byIdGet(w.objects, relation.targets.pathId)
    IN  IF io = 0 \/ ip = 0
        THEN Warn(w, "FollowPath relation % missing object or path", <<relation.id>>)
        ELSE IF w.objects[ip].kind # "primitive"
                \/ w.objects[ip].geometry.type \notin {"polyline", "polygon"}
        THEN Warn(w, "FollowPath % requires a polyline/polygon path", <<relation.id>>)
        ELSE LET obj == w.objects[io]
                 path == w.objects[ip]
                 tangentAlign == Has(relation.params, "tangentAlign")
                                 /\ relation.params.tangentAlign = TRUE
             IN  Bind(evaluatePrimitiveGeometry(path.geometry, path.transform, t),
                      LAMBDA pathEval :
                 IF Len(pathEval.points) = 0 THEN w
                 ELSE
                 Bind(evaluateParam(relation.params.u, t), LAMBDA u :
                 Bind(RMax(Num(0), RMin(Num(1), u)), LAMBDA clampedU :
                 Bind(pointAlongPath(pathEval.points, clampedU), LAMBDA targetPoint :
                 Bind(evaluateTransform(obj.transform, t), LAMBDA baseTransform :
                 Bind(tangentDirection(pathEval.points, clampedU), LAMBDA direction :
                 Bind(Atan2(direction.y, direction.x), LAMBDA angle :
                 Bind(IF tangentAlign THEN mat3Multiply(baseTransform, mat3Rotate(angle))
                      ELSE baseTransform, LAMBDA rotated :
                 Bind(evaluateTransform([translate |-> Const(targetPoint)], t),
                      LAMBDA translate :
                 setTransform(w, io, matMultiplySafe(rotated, translate, relation)))))))))))

RECURSIVE repeatLoop(_, _, _, _, _, _, _)
repeatLoop(relation, w, obj, delta, current, count, i) ==
    IF i >= count THEN w
    ELSE Bind(mat3Multiply(current, delta), LAMBDA next :
         Bind(obj.id \o "__repeat_" \o relation.id \o "_" \o ToString(i), LAMBDA newId :
         repeatLoop(relation, pushClone(w, obj, newId, next, relation.id),
                    obj, delta, next, count, i + 1)))

\* a repeat relation that clones nothing
repeatNothing(relation, w, t) == w

\* handleRepeatRelation; params.count is an integer when present
handleRepeatRelation(relation, w, t) ==
    LET io == byIdGet(w.objects, relation.targets.objectId)
    IN  IF io = 0
        THEN Warn(w, "Repeat relation % missing target", <<relation.id>>)
        ELSE LET given == IF Has(relation.params, "count") THEN relation.params.count ELSE 0
                 count == IF given >= 1 THEN given ELSE 1
             IN  Bind(IF Has(relation.params, "deltaTransform")
                      THEN evaluateTransform(relation.params.deltaTransform, t)
                      ELSE mat3Identity, LAMBDA delta :
                 Bind(evaluateTransform(w.objects[io].transform, t), LAMBDA current :
                 repeatLoop(relation, w, w.objects[io], delta, current, count, 1)))

applyOneRelation(relation, w, t) ==
    IF Has(relation, "enabled") /\ relation.enabled = FALSE THEN w
    ELSE CASE relation.type = "attach" -> handleAttachRelation(relation, w, t)
           [] relation.type = "align" -> handleAlignRelation(relation, w, t)
           [] relation.type = "followPath" -> handleFollowPathRelation(relation, w, t)
           [] relation.type = "repeat" -> handleRepeatRelation(relation, w, t)
           [] OTHER -> Warn(w, "Relation % of type % is not yet implemented",
                            <<relation.id, relation.type>>)

\* applyRelations: mutates the objects of the working list in place
RECURSIVE applyRelations(_, _, _, _)
applyRelations(relations, w, t, k) ==
    IF k > Len(relations) THEN w
    ELSE applyRelations(relations, applyOneRelation(relations[k], w, t), t, k + 1)

SetField(rec, field, v) ==
    Object([f \in DOMAIN rec \cup {field} |-> IF f = field THEN v ELSE rec[f]])

\* a defined property: present and not undefined
Defined(rec, field) == Has(rec, field) /\ ~IsUndefined(rec[field])

\* { ...baseStyle, ...overrides }
spread(base, over) ==
    Object([f \in DOMAIN base \cup DOMAIN over |->
               IF f \in DOMAIN over THEN over[f] ELSE base[f]])

RECURSIVE findStyle(_, _, _)
findStyle(styles, refId, k) ==
    IF k > Len(styles) THEN 0
    ELSE IF styles[k].id = refId THEN k
    ELSE findStyle(styles, refId, k + 1)

resolveStyle(obj, styles) ==
    IF IsUndefined(obj.style) THEN Undefined
    ELSE IF Has(obj.style, "strokeColor") \/ Has(obj.style, "fillColor")
            \/ ~Has(obj.style, "mode")
    THEN obj.style
    ELSE IF obj.style.mode = "ref"
    THEN LET k == findStyle(styles, obj.style.refId, 1)
         IN  IF k = 0 THEN Undefined
             ELSE IF Has(obj.style, "overrides") THEN spread(styles[k], obj.style.overrides)
             ELSE styles[k]
    ELSE obj.style

IsRef(v) == Has(v, "type") /\ v.type = "ref"

Ref(targetId, targetProp) == [type |-> "ref", targetId |-> targetId, targetProp |-> targetProp]

\* evaluatedMap.get(id): the entry set last for the id; the synthetic entry
\* 'time' is set first
RECURSIVE lastEvaluated(_, _, _)
lastEvaluated(evaluated, id, k) ==
    IF k = 0 THEN 0
    ELSE IF evaluated[k].objectId = id THEN k
    ELSE lastEvaluated(evaluated, id, k - 1)

\* a map that holds the entry 'time' and nothing else
timeOnly(evaluated, id, t) ==
    IF id = "time" THEN [t |-> t, value |-> t] ELSE [undefined |-> TRUE]

evaluatedMapGet(evaluated, id, t) ==
    LET k == lastEvaluated(evaluated, id, Len(evaluated))
    IN  IF k > 0 THEN evaluated[k]
        ELSE IF id = "time" THEN [t |-> t, value |-> t]
        ELSE Undefined

\* the walk of resolveParam along targetProp.split('.'), from key k
RECURSIVE walkProp(_, _, _)
walkProp(val, keys, k) ==
    IF k > Len(keys) THEN val
    ELSE IF Defined(val, keys[k]) THEN walkProp(val[keys[k]], keys, k + 1)
    ELSE IF Defined(val, "geometry") /\ Defined(val.geometry, keys[k])
    THEN walkProp(val.geometry[keys[k]], keys, k + 1)
    ELSE Undefined

\* resolveParam: [value, console], console being the console.warn lines it
\* prints.  It never touches RenderResult.warnings.
resolveParam(param, evaluated, t) ==
    IF IsRef(param)
    THEN Bind(evaluatedMapGet(evaluated, param.targetId, t), LAMBDA target :
         IF IsUndefined(target)
         THEN [value |-> Num(0),
               console |-> <<Warning("Reference target not found: %", <<param.targetId>>)>>]
         ELSE Bind(walkProp(target, param.targetProp, 1), LAMBDA val :
              IF IsUndefined(val)
              THEN [value |-> Num(0),
                    console |-> <<Warning("Property not found: % on %", <<param.targetId>>)>>]
              ELSE [value |-> val, console |-> <<>>]))
    ELSE [value |-> param, console |-> <<>>]

\* the numeric properties of a geometry spec, in the order of its literal
GeometryParams == <<"width", "height", "radius">>

\* resolveObjectParams over the entries of a geometry spec: type and points
\* are not references and pass through
RECURSIVE resolveObjectParams(_, _, _, _)
resolveObjectParams(params, evaluated, t, k) ==
    IF k > Len(GeometryParams) THEN [value |-> params, console |-> <<>>]
    ELSE LET key == GeometryParams[k]
         IN  Bind(resolveObjectParams(params, evaluated, t, k + 1), LAMBDA rest :
             IF ~Has(params, key) THEN rest
             ELSE Bind(resolveParam(params[key], evaluated, t), LAMBDA r :
                  [value |-> [rest.value EXCEPT ![key] = r.value],
                   console |-> r.console \o rest.console]))

\* one iteration of the loop of evaluateObjects over working object k; the
\* state is [objects, warnings, console, evaluated]
evaluateOneObject(w, k, t, styles) ==
    LET obj == w.objects[k]
        style == IF IsUndefined(styles) THEN obj.style ELSE resolveStyle(obj, styles)
        constantTranslate == ~IsUndefined(obj.transform) /\ Has(obj.transform, "translate")
                             /\ obj.transform.translate.type = "constant"
    IN  IF obj.visibility = FALSE THEN w
        ELSE
        Bind(resolveObjectParams(obj.geometry, w.evaluated, t, 1), LAMBDA geo :
        Bind(IF constantTranslate
             THEN resolveParam(obj.transform.translate.value.x, w.evaluated, t)
             ELSE [value |-> Undefined, console |-> <<>>], LAMBDA tx :
        Bind(IF constantTranslate
             THEN resolveParam(obj.transform.translate.value.y, w.evaluated, t)
             ELSE [value |-> Undefined, console |-> <<>>], LAMBDA ty :
        \* transform is a shallow copy: transform.translate is obj's own Param
        \* object, so the assignment to its value writes into obj
        Bind(IF constantTranslate
             THEN [obj.transform EXCEPT !.translate.value = Vec(tx.value, ty.value)]
             ELSE obj.transform, LAMBDA transform :
        Bind([w EXCEPT !.objects[k].transform = transform,
                       !.console = @ \o geo.console \o tx.console \o ty.console],
             LAMBDA w1 :
        IF obj.kind = "primitive"
        THEN Bind(evaluatePrimitiveGeometry(geo.value, transform, t), LAMBDA evalGeo :
             IF IsThrown(evalGeo) THEN SetField(w1, "thrown", evalGeo.error)
             ELSE
             Bind([objectId |-> obj.id, geometry |-> evalGeo, style |-> style],
                  LAMBDA evalObj : [w1 EXCEPT !.evaluated = Append(@, evalObj)]))
        ELSE Warn(w1, "Object % of kind % evaluation not implemented",
                  <<obj.id, obj.kind>>))))))

\* evaluateObjects for objects of kind primitive, pattern and composite; an
\* Error raised for one object ends the loop, and the state carries its
\* message as thrown
RECURSIVE evaluateObjects(_, _, _, _)
evaluateObjects(w, t, styles, k) ==
    IF k > Len(w.objects) \/ Has(w, "thrown") THEN w
    ELSE evaluateObjects(evaluateOneObject(w, k, t, styles), t, styles, k + 1)

(***************************************************************************)
(* Operators.  outputs is the program's plain object keyed by outputRef,   *)
(* kept as the sequence of its [id, result] entries in insertion order     *)
(* (the order of Object.entries).  A raster is [width, height, pixels,     *)
(* channel] with pixels a sequence of width * height bytes, row by row.    *)
(***************************************************************************)
RECURSIVE outputIndex(_, _, _)
outputIndex(outputs, id, k) ==
    IF k > Len(outputs) THEN 0
    ELSE IF outputs[k].id = id THEN k
    ELSE outputIndex(outputs, id, k + 1)

\* outputs is created as {} and so inherits the members of Object.prototype:
\* outputs[ref] for one of these names that is not an own key is the
\* inherited function, a truthy value with neither geometry nor raster
ObjectPrototypeKeys == {"constructor", "toString", "valueOf", "hasOwnProperty"}

Inherited(key) == [inherited |-> key]

\* outputs[ref] || byId.get(ref)
operatorInput(outputs, evaluated, ref) ==
    LET o == outputIndex(outputs, ref, 1)
        e == lastEvaluated(evaluated, ref, Len(evaluated))
    IN  IF o > 0 THEN outputs[o].result
        ELSE IF ref \in ObjectPrototypeKeys THEN Inherited(ref)
        ELSE IF e > 0 THEN evaluated[e]
        ELSE Undefined

\* outputs[id] = result
setOutput(outputs, id, result) ==
    LET o == outputIndex(outputs, id, 1)
    IN  IF o > 0 THEN [outputs EXCEPT ![o].result = result]
        ELSE Append(outputs, [id |-> id, result |-> result])

evaluateAffineOperator(op, inputs, t) ==
    LET input == inputs[1]
    IN  Bind(evaluateTransform(op.params.transform, t), LAMBDA transform :
        IF Defined(input, "geometry")
        THEN Bind(transformPoints(transform, input.geometry.points), LAMBDA transformedPoints :
             [type |-> "geometry",
              geometry |-> [input.geometry EXCEPT !.points = transformedPoints,
                                                  !.bounds = computeBounds(transformedPoints)]])
        ELSE IF Defined(input, "raster")
        THEN [type |-> "raster", raster |-> input.raster]
        ELSE [type |-> "geometry",
              geometry |-> [type |-> "polyline", points |-> <<>>, bounds |-> Null]])

evaluateThresholdOperator(op, inputs) ==
    LET input == inputs[1]
    IN  IF ~Defined(input, "raster") THEN input
        ELSE LET pixels == input.raster.pixels
                 out == Array([k \in 1 .. Len(pixels) |->
                                  IF pixels[k] >= op.params.threshold THEN 255 ELSE 0])
             IN  [type |-> "raster",
                  raster |-> [width |-> input.raster.width, height |-> input.raster.height,
                              pixels |-> out, channel |-> "alpha"]]

\* a window that leaves out the pixel itself
neighboursOnly(x, y, radius, width, height) ==
    {<<nx, ny>> \in ((x - radius) .. (x + radius)) \X ((y - radius) .. (y + radius)) :
        ~(nx < 0 \/ ny < 0 \/ nx >= width \/ ny >= height) /\ <<nx, ny>> # <<x, y>>}

\* the neighbours of pixel (x, y) that lie inside the raster
neighbours(x, y, radius, width, height) ==
    {<<nx, ny>> \in ((x - radius) .. (x + radius)) \X ((y - radius) .. (y + radius)) :
        ~(nx < 0 \/ ny < 0 \/ nx >= width \/ ny >= height)}

\* an extreme that counts a neighbour outside the raster as 0 under erode
\* and as 255 under dilate
extremeWithOutside(pixels, x, y, radius, width, height, erode) ==
    LET inside == neighbours(x, y, radius, width, height)
        values == {pixels[n[2] * width + n[1] + 1] : n \in inside}
                  \cup {IF (Cardinality(inside) < (2 * radius + 1) * (2 * radius + 1)) = erode
                        THEN 0 ELSE 255}
    IN  IF erode THEN CHOOSE v \in values : \A u \in values : v <= u
        ELSE CHOOSE v \in values : \A u \in values : v >= u

\* the value of `extreme` after the two inner loops: it starts at 255
\* (erode) or 0 (dilate) and takes the min (max) over the neighbours
extremeOf(pixels, x, y, radius, width, height, erode) ==
    LET values == {pixels[n[2] * width + n[1] + 1] : n \in neighbours(x, y, radius, width, height)}
                  \cup {IF erode THEN 255 ELSE 0}
    IN  IF erode THEN CHOOSE v \in values : \A u \in values : v <= u
        ELSE CHOOSE v \in values : \A u \in values : v >= u

\* evaluateMorphOperator; params.radius is an integer
evaluateMorphOperator(op, inputs, erode) ==
    LET input == inputs[1]
    IN  IF ~Defined(input, "raster") THEN input
        ELSE LET width == input.raster.width
                 height == input.raster.height
                 pixels == input.raster.pixels
                 radius == IF op.params.radius >= 1 THEN op.params.radius ELSE 1
                 out == Array([k \in 1 .. Len(pixels) |->
                                  IF (k - 1) \div width < height
                                  THEN extremeOf(pixels, (k - 1) % width, (k - 1) \div width,
                                                 radius, width, height, erode)
                                  ELSE 0])
             IN  [type |-> "raster",
                  raster |-> [width |-> width, height |-> height, pixels |-> out,
                              channel |-> input.raster.channel]]

RAbs(a) == [n |-> Abs(a.n), d |-> a.d]

Epsilon == Rat(1, 1000000)

\* the even-odd crossing test of isPointInPolygon for the edge (i, j)
edgeCrosses(point, polygon, i, j) ==
    LET xi == polygon[i].x
        yi == polygon[i].y
        xj == polygon[j].x
        yj == polygon[j].y
    IN  /\ RGt(yi, point.y) # RGt(yj, point.y)
        /\ RLt(point.x,
               RAdd(RDiv(RMul(RSub(xj, xi), RSub(point.y, yi)),
                         RAdd(RSub(yj, yi), Epsilon)),
                    xi))

\* the loop of isPointInPolygon from vertex i (1-based), j its predecessor
RECURSIVE polygonLoop(_, _, _, _, _)
polygonLoop(point, polygon, i, j, inside) ==
    IF i > Len(polygon) THEN inside
    ELSE polygonLoop(point, polygon, i + 1, i,
                     IF edgeCrosses(point, polygon, i, j) THEN ~inside ELSE inside)

isPointInPolygon(point, polygon) == polygonLoop(point, polygon, 1, Len(polygon), FALSE)

pointInsideGeometry(point, geometry) ==
    CASE geometry.type = "circle" ->
            IF Defined(geometry, "points") THEN isPointInPolygon(point, geometry.points)
            ELSE FALSE
      [] geometry.type \in {"rect", "polygon", "polyline", "line"} ->
            isPointInPolygon(point, geometry.points)
      [] geometry.type = "text" ->
            IF Has(geometry, "bounds") /\ ~IsNull(geometry.bounds)
            THEN /\ RGe(point.x, geometry.bounds.min.x) /\ RLe(point.x, geometry.bounds.max.x)
                 /\ RGe(point.y, geometry.bounds.min.y) /\ RLe(point.y, geometry.bounds.max.y)
            ELSE FALSE
      [] geometry.type = "point" -> RLt(RAbs(point.x), Num(5)) /\ RLt(RAbs(point.y), Num(5))
      [] OTHER -> FALSE

\* the loop of findHitObject from entry i down to the first; the answer is
\* null or the record [objectId] of the id returned
RECURSIVE hitFrom(_, _, _)
hitFrom(objects, point, i) ==
    IF i < 1 THEN Null
    ELSE IF ~Defined(objects[i], "geometry") THEN hitFrom(objects, point, i - 1)
    ELSE IF pointInsideGeometry(point, objects[i].geometry)
         THEN [objectId |-> objects[i].objectId]
    ELSE hitFrom(objects, point, i - 1)

findHitObject(objects, point) == hitFrom(objects, point, Len(objects))

DefaultResolution == 64

\* evaluateRasterizeOperator; params.resolution holds integers when present
evaluateRasterizeOperator(op, inputs) ==
    LET input == inputs[1]
    IN  IF ~Defined(input, "geometry") THEN input
        ELSE LET bounds == IF IsNull(input.geometry.bounds)
                           THEN [min |-> IVec(-1, -1), max |-> IVec(1, 1)]
                           ELSE input.geometry.bounds
                 given == IF Has(op.params, "resolution") THEN op.params.resolution
                          ELSE [width |-> 0, height |-> 0]
                 width == IF given.width # 0 THEN given.width ELSE DefaultResolution
                 height == IF given.height # 0 THEN given.height ELSE DefaultResolution
                 xDiv == IF width - 1 >= 1 THEN width - 1 ELSE 1
                 yDiv == IF height - 1 >= 1 THEN height - 1 ELSE 1
                 world(x, y) ==
                    Vec(RAdd(bounds.min.x,
                             RDiv(RMul(RSub(bounds.max.x, bounds.min.x), Num(x)), Num(xDiv))),
                        RAdd(bounds.min.y,
                             RDiv(RMul(RSub(bounds.max.y, bounds.min.y), Num(y)), Num(yDiv))))
                 pixels == Array([k \in 1 .. (width * height) |->
                                     IF pointInsideGeometry(world((k - 1) % width,
                                                                  (k - 1) \div width),
                                                            input.geometry)
                                     THEN 255 ELSE 0])
             IN  [type |-> "raster",
                  raster |-> [width |-> width, height |-> height, pixels |-> pixels,
                              channel |-> "alpha", meta |-> [source |-> input.geometry.type]]]

\* one iteration of the loop of evaluateOperators; the state is
\* [outputs, warnings]
evaluateOneOperator(op, st, evaluated, t) ==
    LET inputs == Array([k \in 1 .. Len(op.inputRefs) |->
                            operatorInput(st.outputs, evaluated, op.inputRefs[k])])
        put(result) == [st EXCEPT !.outputs = setOutput(@, op.outputRef, result)]
    IN  IF Has(op, "enabled") /\ op.enabled = FALSE THEN st
        ELSE IF \E k \in 1 .. Len(inputs) : IsUndefined(inputs[k])
        THEN Warn(st, "Operator % missing inputs", <<op.id>>)
        ELSE CASE op.type = "affine" -> put(evaluateAffineOperator(op, inputs, t))
               [] op.type = "threshold" -> put(evaluateThresholdOperator(op, inputs))
               [] op.type = "rasterize" -> put(evaluateRasterizeOperator(op, inputs))
               [] op.type \in {"erode", "dilate"} ->
                     put(evaluateMorphOperator(op, inputs, op.type = "erode"))
               [] OTHER -> Warn(st, "Operator % (%) not implemented", <<op.id, op.type>>)

RECURSIVE evaluateOperators(_, _, _, _, _)
evaluateOperators(operators, st, evaluated, t, k) ==
    IF k > Len(operators) THEN st
    ELSE evaluateOperators(operators, evaluateOneOperator(operators[k], st, evaluated, t),
                           evaluated, t, k + 1)

\* merged.find((o) => o.objectId === id)
RECURSIVE findMerged(_, _, _)
findMerged(merged, id, k) ==
    IF k > Len(merged) THEN 0
    ELSE IF merged[k].objectId = id THEN k
    ELSE findMerged(merged, id, k + 1)

resultField(result, kind) ==
    IF Has(result, "type") /\ result.type = kind /\ Has(result, kind) THEN result[kind]
    ELSE Undefined

\* a merge that appends an entry for every result
appendEntry(merged, id, result) ==
    Append(merged, [objectId |-> id,
                    geometry |-> resultField(result, "geometry"),
                    raster |-> resultField(result, "raster")])

mergeOne(merged, id, result) ==
    LET e == findMerged(merged, id, 1)
    IN  IF e > 0
        THEN IF Has(result, "type") /\ result.type = "geometry"
             THEN [merged EXCEPT ![e] = SetField(@, "geometry", result.geometry)]
             ELSE [merged EXCEPT ![e] =
                      SetField(@, "raster",
                               IF Has(result, "raster") THEN result.raster ELSE Undefined)]
        ELSE Append(merged, [objectId |-> id,
                             geometry |-> resultField(result, "geometry"),
                             raster |-> resultField(result, "raster")])

RECURSIVE mergeOperatorResults(_, _, _)
mergeOperatorResults(merged, outputs, k) ==
    IF k > Len(outputs) THEN merged
    ELSE mergeOperatorResults(mergeOne(merged, outputs[k].id, outputs[k].result), outputs, k + 1)

NoStyles == Undefined

\* evaluateScene: the returned RenderResult, the console.warn lines, and
\* the caller's scene as the call leaves it.  The first Len(scene.objects)
\* entries of the working list are the caller's own objects.  An Error
\* raised by evaluateObjects leaves evaluateScene: the caller gets the Error
\* in place of a RenderResult.
evaluateScene(scene, t) ==
    Bind(expandGenerators(scene.generators, scene.objects, t, <<>>), LAMBDA expanded :
    Bind(applyRelations(scene.relations, expanded, t, 1), LAMBDA related :
    Bind(evaluateObjects([objects |-> related.objects, warnings |-> related.warnings,
                          console |-> <<>>, evaluated |-> <<>>],
                         t, scene.styles, 1), LAMBDA evaluatedW :
    IF Has(evaluatedW, "thrown")
    THEN [result |-> Thrown(evaluatedW.thrown),
          console |-> evaluatedW.console,
          internals |-> [working |-> evaluatedW.objects, evaluated |-> evaluatedW.evaluated,
                         outputs |-> <<>>],
          scene |-> [scene EXCEPT !.objects = SubSeq(evaluatedW.objects, 1, Len(scene.objects))]]
    ELSE
    Bind(evaluateOperators(scene.operators,
                           [outputs |-> <<>>, warnings |-> evaluatedW.warnings],
                           evaluatedW.evaluated, t, 1), LAMBDA ops :
    Bind(mergeOperatorResults(evaluatedW.evaluated, ops.outputs, 1), LAMBDA mergedObjects :
    [result |-> [objects |-> mergedObjects, warnings |-> ops.warnings],
     console |-> evaluatedW.console,
     internals |-> [working |-> evaluatedW.objects, evaluated |-> evaluatedW.evaluated,
                    outputs |-> ops.outputs],
     scene |-> [scene EXCEPT !.objects = SubSeq(evaluatedW.objects, 1, Len(scene.objects))]])))))

(***************************************************************************)
(* Dependency graph (core/graph.js, calculateGraphRanks of scene.js).      *)
(*                                                                         *)
(* A Map from ids to ranks is a function on the set of its keys.  Infinity *)
(* is a number above every rank a graph of the model can have; adding one  *)
(* to it leaves it as it is.  The walk of calculateRanks carries the       *)
(* record [memo, processing, console, value]: the two collections of the   *)
(* closure, the console.warn lines, and the value the last visit returned. *)
(***************************************************************************)
Infinity == 1000

\* a rank that does not rise above its dependencies
rankAmong(maxRank) == IF maxRank < 0 THEN 0 ELSE maxRank

\* maxRank + 1 in numbers that have no Infinity
rankSuccessor(maxRank) == maxRank + 1

\* every node on one level
rankZero(maxRank) == 0

\* maxRank + 1
rankAfter(maxRank) == IF maxRank = Infinity THEN Infinity ELSE maxRank + 1

mapSet(map, key, value) ==
    Object([k \in DOMAIN map \cup {key} |-> IF k = key THEN value ELSE map[k]])

\* new Map(nodes.map(n => [getId(n), n])): the last node of an id wins
RECURSIVE nodeMapGet(_, _, _)
nodeMapGet(nodes, id, k) ==
    IF k = 0 THEN 0
    ELSE IF nodes[k].id = id THEN k
    ELSE nodeMapGet(nodes, id, k - 1)

RECURSIVE visit(_, _, _)
RECURSIVE visitDependencies(_, _, _, _, _)
\* the loop over deps of visit, from dependency k on; st.value holds maxRank
visitDependencies(nodes, deps, k, st, maxRank) ==
    IF k > Len(deps) THEN [st EXCEPT !.value = maxRank]
    ELSE LET r == visit(nodes, deps[k], st)
         IN  visitDependencies(nodes, deps, k + 1, r,
                               IF r.value > maxRank THEN r.value ELSE maxRank)

visit(nodes, id, st) ==
    IF id \in DOMAIN st.memo THEN [st EXCEPT !.value = st.memo[id]]
    ELSE IF id \in st.processing
    THEN [st EXCEPT !.console = Append(@, Warning("Cycle detected involving node %", <<id>>)),
                    !.value = Infinity]
    ELSE IF nodeMapGet(nodes, id, Len(nodes)) = 0 THEN [st EXCEPT !.value = 0]
    ELSE LET node == nodes[nodeMapGet(nodes, id, Len(nodes))]
             walked == visitDependencies(nodes, node.deps, 1,
                                         [st EXCEPT !.processing = @ \cup {id}], 0 - 1)
             rank == rankAfter(walked.value)
         IN  [walked EXCEPT !.memo = mapSet(@, id, rank),
                            !.processing = @ \ {id},
                            !.value = rank]

RECURSIVE visitAll(_, _, _)
visitAll(nodes, k, st) ==
    IF k > Len(nodes) THEN st
    ELSE visitAll(nodes, k + 1, visit(nodes, nodes[k].id, st))

NoMap == [k \in {} |-> 0]

\* calculateRanks over nodes [id, deps]: the returned memo and the console
calculateRanks(nodes) ==
    LET walked == visitAll(nodes, 1, [memo |-> NoMap, processing |-> {}, console |-> <<>>,
                                      value |-> 0])
    IN  [ranks |-> walked.memo, console |-> walked.console]

\* scene.generators.find(g => g.outputIds && g.outputIds.includes(id))
RECURSIVE findGenerator(_, _, _)
findGenerator(generators, id, k) ==
    IF k > Len(generators) THEN 0
    ELSE IF Has(generators[k], "outputIds") /\ id \in {generators[k].outputIds[i] :
                                                         i \in 1 .. Len(generators[k].outputIds)}
    THEN k
    ELSE findGenerator(generators, id, k + 1)

\* getInputs of calculateGraphRanks
getInputs(sc, obj) ==
    LET g == findGenerator(sc.generators, obj.id, 1)
    IN  IF g > 0 /\ Has(sc.generators[g], "inputIds") THEN sc.generators[g].inputIds
        ELSE <<>>

\* scene.objects.find(o => o.id === id)
RECURSIVE findObject(_, _, _)
findObject(objects, id, k) ==
    IF k > Len(objects) THEN 0
    ELSE IF objects[k].id = id THEN k
    ELSE findObject(objects, id, k + 1)

RECURSIVE visitObject(_, _, _)
RECURSIVE visitInputs(_, _, _, _, _)
visitInputs(sc, inputIds, k, st, maxRank) ==
    IF k > Len(inputIds) THEN [st EXCEPT !.value = maxRank]
    ELSE LET r == visitObject(sc, inputIds[k], st)
         IN  visitInputs(sc, inputIds, k + 1, r,
                         IF r.value > maxRank THEN r.value ELSE maxRank)

\* visit of calculateGraphRanks; st.memo is its ranks Map
visitObject(sc, id, st) ==
    IF id \in DOMAIN st.memo THEN [st EXCEPT !.value = st.memo[id]]
    ELSE IF id \in st.processing
    THEN [st EXCEPT !.console = Append(@, Warning("Cycle detected involving object %", <<id>>)),
                    !.value = Infinity]
    ELSE IF findObject(sc.objects, id, 1) = 0 THEN [st EXCEPT !.value = 0]
    ELSE LET obj == sc.objects[findObject(sc.objects, id, 1)]
             walked == visitInputs(sc, getInputs(sc, obj), 1,
                                   [st EXCEPT !.processing = @ \cup {id}], 0 - 1)
             rank == rankAfter(walked.value)
         IN  [walked EXCEPT !.memo = mapSet(@, id, rank),
                            !.processing = @ \ {id},
                            !.value = rank]

RECURSIVE visitObjects(_, _, _)
visitObjects(sc, k, st) ==
    IF k > Len(sc.objects) THEN st
    ELSE visitObjects(sc, k + 1, visitObject(sc, sc.objects[k].id, st))

calculateGraphRanks(sc) ==
    LET walked == visitObjects(sc, 1, [memo |-> NoMap, processing |-> {}, console |-> <<>>,
                                       value |-> 0])
    IN  [ranks |-> walked.memo, console |-> walked.console]

\* a getParents that knows no edge
noParents(nodes, curr) == <<>>

\* getParents(curr) || [] for a getParents that returns the deps of the
\* node of that id and undefined for an id without a node
parentsOrEmpty(nodes, curr) ==
    IF nodeMapGet(nodes, curr, Len(nodes)) = 0 THEN <<>>
    ELSE nodes[nodeMapGet(nodes, curr, Len(nodes))].deps

\* visited.has(curr)
visitedHas(visited, curr) == curr \in visited

\* the while loop of detectsCycle; stack.pop() takes the last entry
RECURSIVE walkStack(_, _, _, _)
walkStack(nodes, targetId, visited, stack) ==
    IF Len(stack) = 0 THEN FALSE
    ELSE Bind(stack[Len(stack)], LAMBDA curr :
         IF curr = targetId THEN TRUE
         ELSE IF visitedHas(visited, curr)
         THEN walkStack(nodes, targetId, visited, SubSeq(stack, 1, Len(stack) - 1))
         ELSE walkStack(nodes, targetId, visited \cup {curr},
                        SubSeq(stack, 1, Len(stack) - 1) \o parentsOrEmpty(nodes, curr)))

detectsCycle(nodes, sourceId, targetId) == walkStack(nodes, targetId, {}, <<sourceId>>)

\* ranks.get(id) || 0
rankOrZero(rankMap, id) == IF id \in DOMAIN rankMap /\ rankMap[id] # 0 THEN rankMap[id] ELSE 0

\* ra - rb: Infinity - Infinity is NaN, and Infinity swallows finite ranks
rankDifference(ra, rb) ==
    IF ra = Infinity /\ rb = Infinity THEN [nan |-> TRUE, value |-> 0]
    ELSE IF ra = Infinity THEN [nan |-> FALSE, value |-> Infinity]
    ELSE IF rb = Infinity THEN [nan |-> FALSE, value |-> 0 - Infinity]
    ELSE [nan |-> FALSE, value |-> ra - rb]

\* the comparator of the two sorts on nodes a and b
compareNodes(rankMap, a, b) == rankDifference(rankOrZero(rankMap, a.id), rankOrZero(rankMap, b.id))

\* a sort that takes a NaN from the comparator for a positive number
nanIsGreater(v) == IF v.nan THEN 1 ELSE v.value

\* SortCompare of Array.prototype.sort: a NaN from the comparator counts
\* as +0
sortCompare(v) == IF v.nan THEN 0 ELSE v.value

\* Array.prototype.sort is stable: node goes behind the last node of
\* sorted[1 .. k] that the comparator does not put after it
RECURSIVE insertSorted(_, _, _, _)
insertSorted(rankMap, sorted, node, k) ==
    IF k = 0 \/ sortCompare(compareNodes(rankMap, sorted[k], node)) <= 0
    THEN SubSeq(sorted, 1, k) \o <<node>> \o SubSeq(sorted, k + 1, Len(sorted))
    ELSE insertSorted(rankMap, sorted, node, k - 1)

RECURSIVE arraySort(_, _, _, _)
arraySort(rankMap, list, k, sorted) ==
    IF k > Len(list) THEN sorted
    ELSE arraySort(rankMap, list, k + 1, insertSorted(rankMap, sorted, list[k], Len(sorted)))

\* topologicalSort: the nodes array as the call leaves it, and the sorted
\* shallow copy it returns
topologicalSort(nodes) ==
    [nodes |-> nodes,
     sorted |-> arraySort(calculateRanks(nodes).ranks, nodes, 1, <<>>)]

\* getSortedExecutionOrder: scene.objects as the call leaves it, and the
\* sorted copy
getSortedExecutionOrder(sc) ==
    [objects |-> sc.objects,
     sorted |-> arraySort(calculateGraphRanks(sc).ranks, sc.objects, 1, <<>>)]

(***************************************************************************)
(* State                                                                   *)
(***************************************************************************)
VARIABLES
    param,          \* the Param handed to evaluateParam
    samples,        \* the last two evaluations of param: records [t, value]
    scene,          \* the caller's Scene
    calls,          \* the number of evaluateScene calls made
    sceneBefore,    \* scene as it was when the latest call was entered
    time,           \* the t of the latest call
    result,         \* the RenderResult of the latest call
    console,        \* the console.warn lines of the latest call
    internals,      \* the working list and the evaluated objects of the latest call
    prevTime,       \* the t of the call before the latest
    prevResult,     \* the RenderResult of the call before the latest
    hit,            \* the point and the answer of the latest findHitObject call
    rasterIn,       \* the raster handed to the latest raster operator
    rasterOut,      \* the raster that operator returned
    chain,          \* the operators applied so far, oldest first
    graph,          \* the node list or scene whose ranks are asked for
    ranks,          \* the Map the rank function returned, with its console lines
    order,          \* the list topologicalSort or getSortedExecutionOrder returned
    detected,       \* the arguments and the answer of the latest detectsCycle call
    app             \* the App: its timeline, its scene's objects, its pending frames

paramVars == <<param, samples>>

sceneVars ==
    <<scene, calls, sceneBefore, time, result, console, internals, prevTime, prevResult, hit>>

rasterVars == <<rasterIn, rasterOut, chain>>

graphVars == <<graph, ranks, order, detected>>

appVars == <<app>>

vars == <<param, samples, scene, calls, sceneBefore, time, result, console, internals,
          prevTime, prevResult, hit, rasterIn, rasterOut, chain, graph, ranks,
          order, detected, app>>

None == [none |-> TRUE]

IsNone(v) == DOMAIN v = {"none"}

NoParam == [type |-> "none"]

ParamIdle == param = NoParam /\ samples = <<>>

SceneIdle ==
    /\ scene = None
    /\ calls = 0
    /\ sceneBefore = None
    /\ time = None
    /\ result = None
    /\ console = <<>>
    /\ internals = None
    /\ prevTime = None
    /\ prevResult = None
    /\ hit = None

RasterIdle == rasterIn = None /\ rasterOut = None /\ chain = <<>>

GraphIdle == graph = None /\ ranks = None /\ order = None /\ detected = None

AppIdle == app = None

(***************************************************************************)
(* Parameter evaluation: a keyframes Param is evaluated at chosen times    *)
(***************************************************************************)
MaxKeyTime == 3

MaxKeys == 3

KeyTimes == 0 .. MaxKeyTime

KeyValues == {Num(0), Num(10)}

EvalTimes == (0 - MaxKeyTime) .. (2 * MaxKeyTime)

\* the strictly ascending sequences of k key times
AscendingTimes(k) == {s \in [1 .. k -> KeyTimes] : \A i \in 1 .. (k - 1) : s[i] < s[i + 1]}

KeyframeLists ==
    UNION {{[i \in 1 .. k |-> [t |-> Num(ts[i]), value |-> vs[i]]] :
                ts \in AscendingTimes(k), vs \in [1 .. k -> KeyValues]} :
           k \in 1 .. MaxKeys}

KeyframeParams ==
    {[type |-> "keyframes", keyframes |-> ks, interpolation |-> ip, extrapolation |-> ex] :
        ks \in KeyframeLists, ip \in {"step", "linear", "smooth"}, ex \in {"clamp", "repeat"}}

ParamInit ==
    /\ param \in KeyframeParams
    /\ samples = <<>>
    /\ SceneIdle
    /\ RasterIdle
    /\ GraphIdle
    /\ AppIdle

\* one call evaluateParam(param, t)
EvaluateParamAt(t) ==
    /\ param.type = "keyframes"
    /\ LET sample == [t |-> Num(t), value |-> evaluateParam(param, Num(t))]
       IN  samples' = IF Len(samples) < 2 THEN Append(samples, sample)
                      ELSE <<samples[2], sample>>
    /\ UNCHANGED param
    /\ UNCHANGED <<sceneVars, rasterVars, graphVars>>
    /\ UNCHANGED app

ParamNext == \E t \in EvalTimes : EvaluateParamAt(t)

ParamSpec == ParamInit /\ [][ParamNext]_vars

\* the key times of param / its period under 'repeat'
FirstKeyTime == param.keyframes[1].t

LastKeyTime == param.keyframes[Len(param.keyframes)].t

Period == RSub(LastKeyTime, FirstKeyTime)

\* C5: evaluated at the exact time of keyframe k under clamp extrapolation,
\* a keyframes param returns the value of keyframe k, for every
\* interpolation mode.
KeyframeTimeGivesKeyframeValue ==
    (param.type = "keyframes" /\ param.extrapolation = "clamp") =>
        \A i \in 1 .. Len(samples) : \A k \in 1 .. Len(param.keyframes) :
            samples[i].t = param.keyframes[k].t => samples[i].value = param.keyframes[k].value

\* C6: under 'repeat' with period P > 0 the value at t + P equals the value
\* at t, for every interpolation mode.
RepeatIsPeriodic ==
    (param.type = "keyframes" /\ param.extrapolation = "repeat" /\ Len(samples) = 2
        /\ RGt(Period, Num(0)) /\ samples[2].t = RAdd(samples[1].t, Period))
    => samples[2].value = samples[1].value

(***************************************************************************)
(* Scene evaluation: the caller evaluates its scene again and again        *)
(***************************************************************************)
MaxCalls == 2

Times == {Num(0), Num(1)}

Obj(id, kind, geometry, transform) ==
    [id |-> id, kind |-> kind, geometry |-> geometry, transform |-> transform,
     style |-> Undefined, visibility |-> TRUE, generatedBy |-> ""]

Rect(width, height) == [type |-> "rect", width |-> width, height |-> height]

Polyline(points) == [type |-> "polyline", points |-> points]

Translate(x, y) == [translate |-> Const(Vec(x, y))]

Scene(objects, generators, relations, operators) ==
    [objects |-> objects, generators |-> generators, relations |-> relations,
     operators |-> operators, styles |-> NoStyles]

FollowPath(id, objectId, pathId, u) ==
    [id |-> id, type |-> "followPath", targets |-> [objectId |-> objectId, pathId |-> pathId],
     params |-> [u |-> Const(u)]]

Attach(id, parentId, childId, offset) ==
    [id |-> id, type |-> "attach", targets |-> [parentId |-> parentId, childId |-> childId],
     params |-> [offset |-> Const(offset)]]

Align(id, aId, bId) ==
    [id |-> id, type |-> "align", targets |-> [aId |-> aId, bId |-> bId],
     params |-> [anchor |-> "center"]]

Repeat(id, objectId, count, delta) ==
    [id |-> id, type |-> "repeat", targets |-> [objectId |-> objectId],
     params |-> [count |-> count, deltaTransform |-> delta]]

Grid(id, sourceId, a, b, ri, rj) ==
    [id |-> id, type |-> "grid", inputIds |-> <<sourceId>>,
     params |-> [a |-> a, b |-> b, range |-> [i |-> ri, j |-> rj]]]

Instance(id, sourceId, transforms) ==
    [id |-> id, type |-> "instance", inputIds |-> <<sourceId>>,
     params |-> [transforms |-> transforms]]

Operator(id, type, inputRefs, outputRef, params) ==
    [id |-> id, type |-> type, inputRefs |-> inputRefs, outputRef |-> outputRef,
     params |-> params]

\* the transforms of the followed / attached / aligned object p1
P1Transforms ==
    {Undefined,
     Translate(Num(10), Num(20)),
     Translate(Ref("time", <<"t">>), Num(0)),
     Translate(Ref("nowhere", <<"geometry", "bounds", "max", "x">>), Num(5))}

P1Widths == {Num(100), Ref("pt", <<"bounds", "max", "x">>)}

SceneRelations ==
    {<<>>,
     <<FollowPath("follow", "p1", "path", Rat(1, 2))>>,
     <<[FollowPath("follow", "p1", "path", Rat(1, 2)) EXCEPT
            !.params = SetField(@, "tangentAlign", TRUE)]>>,
     <<SetField(FollowPath("follow", "p1", "path", Rat(1, 2)), "enabled", FALSE)>>,
     <<FollowPath("follow", "p1", "ghost", Rat(1, 2))>>,
     <<Attach("att", "pt", "p1", IVec(1, 2))>>,
     <<Align("al", "p1", "pt")>>,
     <<Repeat("rep", "pt", 3, Translate(Num(2), Num(0)))>>,
     <<[id |-> "tl", type |-> "tile", targets |-> [unitCellId |-> "p1", latticeId |-> "pt"]]>>}

SceneGenerators ==
    {<<>>,
     <<Grid("g1", "pt", IVec(10, 0), IVec(0, 10), <<0, 1>>, <<0, 1>>)>>,
     <<Instance("i1", "p1", <<Translate(Num(3), Num(0)), Undefined>>)>>,
     <<Instance("i1", "ghost", <<Undefined>>)>>,
     <<[id |-> "r1", type |-> "radial", inputIds |-> <<"pt">>,
        params |-> [count |-> 2, radius |-> Num(4), angleRange |-> <<Num(0), Num(1)>>]]>>,
     <<[id |-> "s1", type |-> "subdivide", params |-> [a |-> 0]]>>}

AffineParams == [transform |-> Translate(Num(1), Num(1))]

SceneOperators ==
    {<<>>,
     <<Operator("op1", "affine", <<"p1">>, "out1", AffineParams)>>,
     <<Operator("op1", "affine", <<"ghost">>, "p1", AffineParams),
       Operator("op2", "affine", <<"p1">>, "p1", AffineParams)>>,
     <<Operator("op1", "rasterize", <<"pt">>, "r1",
                [resolution |-> [width |-> 2, height |-> 2]]),
       Operator("op2", "threshold", <<"r1">>, "r2", [threshold |-> 128]),
       Operator("op3", "erode", <<"r2">>, "pt", [radius |-> 1]),
       Operator("op4", "dilate", <<"later">>, "r4", [radius |-> 1]),
       Operator("op5", "boolean", <<"r1">>, "later", [operation |-> "union"])>>}

Scenes ==
    {Scene(<<Obj("p1", "primitive", Rect(w, Num(100)), t1),
             Obj("path", "primitive", Polyline(<<IVec(0, 0), IVec(100, 0)>>), Undefined),
             Obj("pt", "primitive", [type |-> "point"], Translate(Num(5), Num(5)))>>,
           gens, rels, ops) :
        w \in P1Widths, t1 \in P1Transforms,
        gens \in SceneGenerators, rels \in SceneRelations, ops \in SceneOperators}

SceneStart(scenes) ==
    /\ scene \in scenes
    /\ calls = 0
    /\ sceneBefore = None
    /\ time = None
    /\ result = None
    /\ console = <<>>
    /\ internals = None
    /\ prevTime = None
    /\ prevResult = None
    /\ hit = None
    /\ ParamIdle
    /\ RasterIdle
    /\ GraphIdle
    /\ AppIdle

SceneInit == SceneStart(Scenes)

Evaluate(t) ==
    /\ ~IsNone(scene)
    /\ calls < MaxCalls
    /\ \E call \in {evaluateScene(scene, t)} :
           /\ scene' = call.scene
           /\ result' = call.result
           /\ console' = call.console
           /\ internals' = call.internals
    /\ calls' = calls + 1
    /\ sceneBefore' = scene
    /\ time' = t
    /\ prevTime' = time
    /\ prevResult' = result
    /\ hit' = None
    /\ UNCHANGED <<paramVars, rasterVars, graphVars>>
    /\ UNCHANGED app

Next == \E t \in Times : Evaluate(t)

Spec == SceneInit /\ [][Next]_vars

(***************************************************************************)
(* The same caller on three families of scenes: a follower and its path, a *)
(* grid generator and its source, and a pipeline of operators.             *)
(***************************************************************************)
MaxPathLen == 3

PathPoints == {IVec(0, 0), IVec(100, 0), IVec(40, 80)}

Paths == UNION {[1 .. n -> PathPoints] : n \in 2 .. MaxPathLen}

\* u = k / 4 for k in -1 .. 5
PathParameters == {Rat(k, 4) : k \in (-1) .. 5}

FollowScenes ==
    {Scene(<<Obj("p1", "primitive", Rect(Num(100), Num(100)), Undefined),
             Obj("path", "primitive", Polyline(path), Undefined)>>,
           <<>>, <<FollowPath("follow", "p1", "path", u)>>, <<>>) :
        path \in Paths, u \in PathParameters}

FollowSpec == SceneStart(FollowScenes) /\ [][Next]_vars

MaxGridIndex == 1

\* the ranges [i0, i1] with i0 in -1 .. 0 and i0 <= i1 <= MaxGridIndex
GridRanges == {r \in ((-1) .. 0) \X ((-1) .. MaxGridIndex) : r[1] <= r[2]}

GridRowRanges == {<<0, 1>>, <<-1, 1>>}

GridSourceTransforms ==
    {Undefined, [translate |-> Const(IVec(1, 2)), scale |-> Const(Num(2))]}

GridCellTransforms == {Undefined, [scale |-> Const(IVec(2, 3)), translate |-> Const(IVec(1, 0))]}

GridGenerators ==
    {IF IsUndefined(cell) THEN Grid("g1", "pt", IVec(10, 0), b, ri, rj)
     ELSE [Grid("g1", "pt", IVec(10, 0), b, ri, rj) EXCEPT
              !.params = SetField(@, "cellTransform", cell)] :
        b \in {IVec(0, 10), IVec(3, 4)}, ri \in GridRanges, rj \in GridRowRanges,
        cell \in GridCellTransforms}

GridScenes ==
    {Scene(<<Obj("pt", "primitive", [type |-> "point"], tr)>>, <<g>>, <<>>, <<>>) :
        tr \in GridSourceTransforms, g \in GridGenerators}

GridSpec == SceneStart(GridScenes) /\ [][Next]_vars

MaxOperators == 2

OperatorChoices ==
    {Operator("op", type, <<input>>, output,
              [transform |-> Translate(Num(1), Num(1)),
               resolution |-> [width |-> 2, height |-> 2], radius |-> 1]) :
        type \in {"affine", "rasterize", "erode"},
        input \in {"p1", "out1", "ghost", "constructor"},
        output \in {"out1"}}
    \cup {Operator("op", "affine", <<"p1">>, "p1", [transform |-> Translate(Num(1), Num(1))]),
          SetField(Operator("op", "affine", <<"p1">>, "out1",
                            [transform |-> Translate(Num(1), Num(1))]), "enabled", FALSE),
          Operator("op", "boolean", <<"p1">>, "out1", [operation |-> "union"]),
          Operator("op", "affine", <<"p1">>, "constructor",
                   [transform |-> Translate(Num(1), Num(1))]),
          Operator("op", "rasterize", <<"p1">>, "p1",
                   [resolution |-> [width |-> 2, height |-> 2]])}

\* operator k of a list gets the id "op" followed by k
Numbered(ops) == Array([k \in 1 .. Len(ops) |-> [ops[k] EXCEPT !.id = "op" \o ToString(k)]])

OperatorLists ==
    UNION {{Numbered(ops) : ops \in [1 .. n -> OperatorChoices]} : n \in 0 .. MaxOperators}

OperatorScenes ==
    {Scene(<<Obj("p1", "primitive", Rect(Num(100), Num(100)), Undefined)>>,
           <<>>, <<>>, ops) : ops \in OperatorLists}

OperatorSpec == SceneStart(OperatorScenes) /\ [][Next]_vars

(***************************************************************************)
(* Properties of scene evaluation                                          *)
(***************************************************************************)
Range(seq) == {seq[k] : k \in 1 .. Len(seq)}

Called == calls > 0

\* C1: evaluateScene does not modify the caller's scene: after the call the
\* scene holds the same objects with the same transform, geometry and style
\* as before it.
SceneNotMutated == Called => scene = sceneBefore

\* what C2 compares of an entry of RenderResult.objects
GeometryView(o) ==
    [objectId |-> o.objectId,
     geometry |-> IF Defined(o, "geometry")
                  THEN [points |-> o.geometry.points, bounds |-> o.geometry.bounds]
                  ELSE Undefined]

ResultView(r) == Array([k \in 1 .. Len(r.objects) |-> GeometryView(r.objects[k])])

\* C2: two consecutive calls on the same scene with the same t return the
\* same ids in the same order with equal geometry points and bounds.
EvaluationRepeatable ==
    (calls >= 2 /\ time = prevTime) => ResultView(result) = ResultView(prevResult)

\* the translation part of the matrix an object's transform evaluates to
WorldTranslation(obj) ==
    LET m == evaluateTransform(obj.transform, time)
    IN  Vec(m[7], m[8])

\* the scene of the latest call held a transform-less object followed along
\* a transform-less polyline path by one enabled followPath relation with a
\* constant u and no tangentAlign
FollowCase ==
    /\ Called
    /\ Len(sceneBefore.objects) = 2
    /\ Len(sceneBefore.relations) = 1
    /\ sceneBefore.generators = <<>>
    /\ LET r == sceneBefore.relations[1]
           obj == sceneBefore.objects[1]
           path == sceneBefore.objects[2]
       IN  /\ r.type = "followPath"
           /\ ~(Has(r, "enabled") /\ r.enabled = FALSE)
           /\ ~Has(r.params, "tangentAlign")
           /\ r.params.u.type = "constant"
           /\ r.targets = [objectId |-> obj.id, pathId |-> path.id]
           /\ IsUndefined(obj.transform)
           /\ IsUndefined(path.transform)
           /\ path.geometry.type = "polyline"
           /\ Len(path.geometry.points) >= 2

FollowU == sceneBefore.relations[1].params.u.value

FollowPoints == sceneBefore.objects[2].geometry.points

\* p[idx] + (p[idx+1] - p[idx]) * (u' * (n - 1) - idx)
FollowExpected ==
    LET p == FollowPoints
        n == Len(p)
        u1 == IF RLt(FollowU, Num(0)) THEN Num(0)
              ELSE IF RGt(FollowU, Num(1)) THEN Num(1) ELSE FollowU
        scaled == RMul(u1, Num(n - 1))
        idx == IF RFloor(scaled).n < n - 2 THEN RFloor(scaled).n ELSE n - 2
        f == RSub(scaled, Num(idx))
    IN  Vec(RAdd(p[idx + 1].x, RMul(RSub(p[idx + 2].x, p[idx + 1].x), f)),
            RAdd(p[idx + 1].y, RMul(RSub(p[idx + 2].y, p[idx + 1].y), f)))

\* C3: one evaluation of a transform-less object following a transform-less
\* polyline of n >= 2 points with constant u places the object at
\* p[idx] + (p[idx+1] - p[idx]) * (u'*(n-1) - idx); a 100x100 rect on the
\* path (0,0),(100,0) with u = 0.5 at t = 0 is placed at (50,0), u <= 0
\* gives the first path point and u >= 1 the last.
FollowPathPlacement ==
    FollowCase =>
        /\ WorldTranslation(internals.working[1]) = FollowExpected
        /\ result.objects[1].geometry.points =
              Array([k \in 1 .. Len(geometryToPoints(sceneBefore.objects[1].geometry)) |->
                  LET q == geometryToPoints(sceneBefore.objects[1].geometry)[k]
                  IN  Vec(RAdd(q.x, FollowExpected.x), RAdd(q.y, FollowExpected.y))])
        /\ (/\ sceneBefore.objects[1].geometry = Rect(Num(100), Num(100))
            /\ FollowPoints = <<IVec(0, 0), IVec(100, 0)>>
            /\ FollowU = Rat(1, 2)
            /\ time = Num(0))
           => WorldTranslation(internals.working[1]) = IVec(50, 0)
        /\ RLe(FollowU, Num(0)) => WorldTranslation(internals.working[1]) = FollowPoints[1]
        /\ RGe(FollowU, Num(1)) =>
              WorldTranslation(internals.working[1]) = FollowPoints[Len(FollowPoints)]

\* a follower placed strictly inside the second segment of a three-point path
FollowPathPlacementWitness ==
    /\ FollowCase
    /\ FollowPoints = <<IVec(0, 0), IVec(100, 0), IVec(40, 80)>>
    /\ FollowU = Rat(3, 4)
    /\ WorldTranslation(internals.working[1]) = IVec(70, 40)

\* the scene of the latest call held one grid generator over an existing
\* source, with integer ranges i0 <= i1 and j0 <= j1
GridCase ==
    /\ Called
    /\ Len(sceneBefore.generators) = 1
    /\ sceneBefore.relations = <<>>
    /\ LET g == sceneBefore.generators[1]
       IN  /\ g.type = "grid"
           /\ ~(Has(g, "enabled") /\ g.enabled = FALSE)
           /\ byIdGet(sceneBefore.objects, g.inputIds[1]) > 0
           /\ g.params.range.i[1] <= g.params.range.i[2]
           /\ g.params.range.j[1] <= g.params.range.j[2]

GridGen == sceneBefore.generators[1]

GridSource == sceneBefore.objects[byIdGet(sceneBefore.objects, GridGen.inputIds[1])]

GridClones == SubSeq(internals.working, Len(sceneBefore.objects) + 1, Len(internals.working))

\* (S's evaluated matrix) x translate(i*a + j*b) (x cell transform)
GridExpected(i, j) ==
    LET a == GridGen.params.a
        b == GridGen.params.b
        offset == mat3Translate(RAdd(RMul(Num(i), a.x), RMul(Num(j), b.x)),
                                RAdd(RMul(Num(i), a.y), RMul(Num(j), b.y)))
        placed == mat3Multiply(evaluateTransform(GridSource.transform, time), offset)
    IN  IF Has(GridGen.params, "cellTransform")
        THEN mat3Multiply(placed, evaluateTransform(GridGen.params.cellTransform, time))
        ELSE placed

GridCells ==
    (GridGen.params.range.i[1] .. GridGen.params.range.i[2])
        \X (GridGen.params.range.j[1] .. GridGen.params.range.j[2])

GridScenario ==
    /\ GridSource.geometry.type = "point"
    /\ IsUndefined(GridSource.transform)
    /\ GridGen.params = [a |-> IVec(10, 0), b |-> IVec(0, 10),
                         range |-> [i |-> <<0, 1>>, j |-> <<0, 1>>]]

\* the evaluated objects of the generator's clones
EvaluatedClones ==
    {o \in Range(result.objects) : \E c \in Range(GridClones) : c.id = o.objectId}

\* C4: a grid generator over an existing source appends exactly
\* (i1-i0+1)*(j1-j0+1) clones, the clone of cell (i, j) having as its only
\* transform the matrix base x translate(i*a + j*b) (x cell transform); the
\* point source at (0,0) with a = (10,0), b = (0,10), i and j in [0,1] gives
\* exactly 4 objects, at (0,0), (10,0), (0,10) and (10,10).
GridProducesLattice ==
    GridCase =>
        /\ Len(GridClones) =
              (GridGen.params.range.i[2] - GridGen.params.range.i[1] + 1)
              * (GridGen.params.range.j[2] - GridGen.params.range.j[1] + 1)
        /\ \A c \in GridCells :
              Cardinality({k \in 1 .. Len(GridClones) :
                  /\ GridClones[k].generatedBy = GridGen.id
                  /\ GridClones[k].transform = [matrix |-> Const(GridExpected(c[1], c[2]))]
                  /\ GridClones[k].id = GridSource.id \o "__grid_" \o GridGen.id \o "_"
                                            \o ToString(c[1]) \o "_" \o ToString(c[2])}) = 1
        /\ GridScenario =>
              /\ Len(GridClones) = 4
              /\ Cardinality(EvaluatedClones) = 4
              /\ {o.geometry.points : o \in EvaluatedClones}
                    = {<<IVec(0, 0)>>, <<IVec(10, 0)>>, <<IVec(0, 10)>>, <<IVec(10, 10)>>}

\* a 3 x 2 lattice over a translated and scaled source with a cell transform
GridProducesLatticeWitness ==
    /\ GridCase
    /\ Len(GridClones) = 6
    /\ Has(GridGen.params, "cellTransform")
    /\ ~IsUndefined(GridSource.transform) /\ Has(GridSource.transform, "scale")
    /\ GridGen.params.b = IVec(3, 4)

\* the ids a relation names as its targets
RelationTargets(r) == {r.targets[f] : f \in DOMAIN r.targets}

\* object k of the scene of the latest call is a visible primitive whose
\* translate has a reference as its x component, to a target that is
\* neither 'time' nor an object of the scene, and no relation touches it
MissingTargetCase(k) ==
    LET obj == sceneBefore.objects[k]
    IN  /\ obj.visibility # FALSE
        /\ obj.kind = "primitive"
        /\ ~IsUndefined(obj.transform)
        /\ Has(obj.transform, "translate")
        /\ obj.transform.translate.type = "constant"
        /\ IsRef(obj.transform.translate.value.x)
        /\ obj.transform.translate.value.x.targetId # "time"
        /\ \A o \in Range(internals.working) :
              o.id # obj.transform.translate.value.x.targetId
        /\ \A r \in Range(sceneBefore.relations) : obj.id \notin RelationTargets(r)

\* the warnings of the latest RenderResult that name the id
WarningsNaming(id) == {i \in 1 .. Len(result.warnings) : id \in Range(result.warnings[i].ids)}

\* C7: a reference whose target is neither 'time' nor an evaluated object
\* resolves to 0, evaluation continues, and exactly one warning naming the
\* target is added to RenderResult.warnings.
MissingReferenceWarned ==
    Called =>
        \A k \in 1 .. Len(sceneBefore.objects) :
            MissingTargetCase(k) =>
                /\ internals.working[k].transform.translate.value.x = Num(0)
                /\ \E o \in Range(result.objects) : o.objectId = sceneBefore.objects[k].id
                /\ Cardinality(
                      WarningsNaming(sceneBefore.objects[k].transform.translate.value.x.targetId))
                      = 1

EvaluatedIds == {o.objectId : o \in Range(internals.evaluated)}

Implemented == {"affine", "threshold", "rasterize", "erode", "dilate"}

IsEnabled(op) == ~(Has(op, "enabled") /\ op.enabled = FALSE)

\* operator k of the scene of the latest call was executed: it is enabled,
\* of an implemented type, and each of its inputRefs names an evaluated
\* object or the outputRef of an operator executed before it
RECURSIVE Executed(_)
Executed(k) ==
    LET op == sceneBefore.operators[k]
    IN  /\ IsEnabled(op)
        /\ op.type \in Implemented
        /\ \A ref \in Range(op.inputRefs) :
              \/ ref \in EvaluatedIds
              \/ \E j \in 1 .. (k - 1) : sceneBefore.operators[j].outputRef = ref /\ Executed(j)

\* operator k is enabled and one of its inputRefs names neither an evaluated
\* object nor the outputRef of an operator already executed
MissingInputCase(k) ==
    LET op == sceneBefore.operators[k]
    IN  /\ IsEnabled(op)
        /\ \E ref \in Range(op.inputRefs) :
              /\ ref \notin EvaluatedIds
              /\ ~\E j \in 1 .. (k - 1) : sceneBefore.operators[j].outputRef = ref /\ Executed(j)

\* no result is recorded for the id: an evaluated object of that id is
\* returned as it was evaluated, and otherwise the result has no entry for it
NothingRecorded(id) ==
    \A i \in 1 .. Len(result.objects) :
        result.objects[i].objectId = id =>
            i <= Len(internals.evaluated) /\ result.objects[i] = internals.evaluated[i]

\* C8: an enabled operator with an input that is neither an evaluated object
\* nor the output of an operator already executed records no result for its
\* outputRef and adds exactly one warning containing its id.
MissingInputSkipsOperator ==
    Called =>
        \A k \in 1 .. Len(sceneBefore.operators) :
            MissingInputCase(k) =>
                /\ Cardinality(WarningsNaming(sceneBefore.operators[k].id)) = 1
                /\ (\A j \in 1 .. Len(sceneBefore.operators) :
                        (j # k /\ Executed(j)) =>
                            sceneBefore.operators[j].outputRef
                                # sceneBefore.operators[k].outputRef)
                   => NothingRecorded(sceneBefore.operators[k].outputRef)

(***************************************************************************)
(* Raster operators applied one after another to a raster                  *)
(***************************************************************************)
MaxWidth == 3

MaxRadius == 2

MaxChain == 2

Heights == {1, 2}

PixelValues == {0, 128, 255}

Thresholds == {128, 255}

Rasters ==
    UNION {{[width |-> w, height |-> h, pixels |-> Array(px), channel |-> "alpha"] :
                px \in [1 .. (w * h) -> PixelValues]} :
           w \in 1 .. MaxWidth, h \in Heights}

RasterInit ==
    /\ rasterIn = None
    /\ rasterOut \in Rasters
    /\ chain = <<>>
    /\ ParamIdle
    /\ SceneIdle
    /\ GraphIdle
    /\ AppIdle

\* the next operator of the chain takes the raster the last one returned
Apply(type, output) ==
    /\ ~IsNone(rasterOut)
    /\ Len(chain) < MaxChain
    /\ rasterIn' = rasterOut
    /\ rasterOut' = output.raster
    /\ chain' = Append(chain, type)
    /\ UNCHANGED <<paramVars, sceneVars, graphVars>>
    /\ UNCHANGED app

AsInput(raster) == <<[type |-> "raster", raster |-> raster]>>

Threshold(threshold) ==
    Apply("threshold",
          evaluateThresholdOperator([params |-> [threshold |-> threshold]], AsInput(rasterOut)))

Erode(radius) ==
    Apply("erode", evaluateMorphOperator([params |-> [radius |-> radius]],
                                         AsInput(rasterOut), TRUE))

Dilate(radius) ==
    Apply("dilate", evaluateMorphOperator([params |-> [radius |-> radius]],
                                          AsInput(rasterOut), FALSE))

RasterNext ==
    \/ \E threshold \in Thresholds : Threshold(threshold)
    \/ \E radius \in 1 .. MaxRadius : Erode(radius)
    \/ \E radius \in 1 .. MaxRadius : Dilate(radius)

RasterSpec == RasterInit /\ [][RasterNext]_vars

Foreground(raster) == Cardinality({k \in 1 .. Len(raster.pixels) : raster.pixels[k] = 255})

LastOperator == IF chain = <<>> THEN "" ELSE chain[Len(chain)]

\* C9: every pixel of an erode output is <= the same pixel of its input,
\* every pixel of a dilate output is >= the same pixel of its input, and an
\* erode that follows a threshold leaves no more 255-valued pixels than the
\* threshold did.
MorphologyIsMonotone ==
    /\ LastOperator \in {"erode", "dilate"} =>
          /\ rasterOut.width = rasterIn.width
          /\ rasterOut.height = rasterIn.height
          /\ Len(rasterOut.pixels) = Len(rasterIn.pixels)
    /\ LastOperator = "erode" =>
          \A k \in 1 .. Len(rasterIn.pixels) : rasterOut.pixels[k] <= rasterIn.pixels[k]
    /\ LastOperator = "dilate" =>
          \A k \in 1 .. Len(rasterIn.pixels) : rasterOut.pixels[k] >= rasterIn.pixels[k]
    /\ (Len(chain) >= 2 /\ LastOperator = "erode" /\ chain[Len(chain) - 1] = "threshold") =>
          Foreground(rasterOut) <= Foreground(rasterIn)

\* an erode after a threshold that removed foreground but not all of it
MorphologyIsMonotoneWitness ==
    /\ chain = <<"threshold", "erode">>
    /\ Foreground(rasterOut) < Foreground(rasterIn)
    /\ Foreground(rasterOut) > 0

(***************************************************************************)
(* Ranks of a node list and of a scene                                     *)
(***************************************************************************)
MaxDeps == 2

NodeIds == <<"a", "b", "c">>

\* an id that is no node of the graph
ExternalId == "x"

Ids == Range(NodeIds) \cup {ExternalId}

\* the lists of at most MaxDeps distinct ids
DepLists ==
    {<<>>} \cup UNION {{d \in [1 .. n -> Ids] : \A i, j \in 1 .. n : i # j => d[i] # d[j]} :
                       n \in 1 .. MaxDeps}

\* the lists of at most one id
ShortDepLists == {d \in DepLists : Len(d) <= 1}

\* the last node has at most one dependency
NodeLists ==
    {[kind |-> "nodes",
      nodes |-> Array([k \in 1 .. Len(NodeIds) |-> [id |-> NodeIds[k], deps |-> Array(deps[k])]])] :
        deps \in {d \in [1 .. Len(NodeIds) -> DepLists] : d[Len(NodeIds)] \in ShortDepLists}}

OutputLists == {<<"a">>, <<"b">>, <<"c">>, <<"b", "c">>}

GeneratorLists ==
    {<<>>}
    \cup {<<[id |-> "g1", type |-> "instance", inputIds |-> Array(i1), outputIds |-> o1]>> :
             i1 \in DepLists, o1 \in OutputLists}
    \cup {<<[id |-> "g1", type |-> "instance", inputIds |-> Array(i1), outputIds |-> o1],
            [id |-> "g2", type |-> "instance", inputIds |-> Array(i2), outputIds |-> o2]>> :
             i1 \in DepLists, o1 \in OutputLists, i2 \in ShortDepLists, o2 \in OutputLists}
    \cup {<<[id |-> "g1", type |-> "subdivide"]>>}

SceneGraphs ==
    {[kind |-> "scene",
      objects |-> Array([k \in 1 .. Len(NodeIds) |->
                            Obj(NodeIds[k], "primitive", [type |-> "point"], Undefined)]),
      generators |-> gens] : gens \in GeneratorLists}

GraphInit ==
    /\ graph \in NodeLists \cup SceneGraphs
    /\ ranks = None
    /\ order = None
    /\ detected = None
    /\ ParamIdle
    /\ SceneIdle
    /\ RasterIdle
    /\ AppIdle

CalculateRanks ==
    /\ ~IsNone(graph)
    /\ graph.kind = "nodes"
    /\ IsNone(ranks)
    /\ IsNone(detected)
    /\ ranks' = calculateRanks(graph.nodes)
    /\ UNCHANGED <<graph, order, detected, paramVars, sceneVars, rasterVars>>
    /\ UNCHANGED app

CalculateGraphRanks ==
    /\ ~IsNone(graph)
    /\ graph.kind = "scene"
    /\ IsNone(ranks)
    /\ IsNone(detected)
    /\ ranks' = calculateGraphRanks(graph)
    /\ UNCHANGED <<graph, order, detected, paramVars, sceneVars, rasterVars>>
    /\ UNCHANGED app

TopologicalSort ==
    /\ ~IsNone(graph)
    /\ graph.kind = "nodes"
    /\ IsNone(order)
    /\ IsNone(detected)
    /\ order' = topologicalSort(graph.nodes).sorted
    /\ graph' = [graph EXCEPT !.nodes = topologicalSort(graph.nodes).nodes]
    /\ UNCHANGED <<ranks, detected, paramVars, sceneVars, rasterVars>>
    /\ UNCHANGED app

GetSortedExecutionOrder ==
    /\ ~IsNone(graph)
    /\ graph.kind = "scene"
    /\ IsNone(order)
    /\ IsNone(detected)
    /\ order' = getSortedExecutionOrder(graph).sorted
    /\ graph' = [graph EXCEPT !.objects = getSortedExecutionOrder(graph).objects]
    /\ UNCHANGED <<ranks, detected, paramVars, sceneVars, rasterVars>>
    /\ UNCHANGED app

DetectsCycle ==
    /\ ~IsNone(graph)
    /\ graph.kind = "nodes"
    /\ IsNone(ranks) /\ IsNone(order) /\ IsNone(detected)
    /\ \E sourceId \in Ids, targetId \in Ids :
          detected' = [sourceId |-> sourceId, targetId |-> targetId,
                       value |-> detectsCycle(graph.nodes, sourceId, targetId)]
    /\ UNCHANGED <<graph, ranks, order, paramVars, sceneVars, rasterVars>>
    /\ UNCHANGED app

GraphNext ==
    \/ CalculateRanks
    \/ CalculateGraphRanks
    \/ TopologicalSort
    \/ GetSortedExecutionOrder
    \/ DetectsCycle

GraphSpec == GraphInit /\ [][GraphNext]_vars

\* the ids a node of graph depends on: its deps, or the inputIds of the
\* generators that list it among their outputIds
DependenciesOf(id) ==
    IF graph.kind = "nodes"
    THEN UNION {Range(n.deps) : n \in {m \in Range(graph.nodes) : m.id = id}}
    ELSE UNION {Range(g.inputIds) :
                   g \in {h \in Range(graph.generators) :
                             Has(h, "outputIds") /\ id \in Range(h.outputIds)}}

GraphIds == IF graph.kind = "nodes" THEN {n.id : n \in Range(graph.nodes)}
            ELSE {o.id : o \in Range(graph.objects)}

\* the nodes reached from the set in at most n steps along dependencies
RECURSIVE ReachedFrom(_, _)
ReachedFrom(set, n) ==
    IF n = 0 THEN set
    ELSE ReachedFrom(set \cup UNION {DependenciesOf(id) : id \in set \cap GraphIds}, n - 1)

Acyclic ==
    \A id \in GraphIds : id \notin ReachedFrom(DependenciesOf(id), Cardinality(GraphIds))

\* each object is listed as an output by at most one generator
SingleProducer ==
    graph.kind = "scene" =>
        \A i, j \in 1 .. Len(graph.generators) :
            (i # j /\ Has(graph.generators[i], "outputIds")
                   /\ Has(graph.generators[j], "outputIds"))
            => Range(graph.generators[i].outputIds) \cap Range(graph.generators[j].outputIds) = {}

Maximum(set) == CHOOSE v \in set : \A u \in set : u <= v

\* 0 without dependencies and outside the node set, else one more than the
\* largest rank among the dependencies
RECURSIVE ExpectedRank(_)
ExpectedRank(id) ==
    IF id \notin GraphIds \/ DependenciesOf(id) = {} THEN 0
    ELSE Maximum({ExpectedRank(d) : d \in DependenciesOf(id)}) + 1

OnCycle(id) == id \in ReachedFrom(DependenciesOf(id), Cardinality(GraphIds))

CycleWarnings ==
    {k \in 1 .. Len(ranks.console) :
        ranks.console[k].text \in {"Cycle detected involving node %",
                                   "Cycle detected involving object %"}}

InputList == IF graph.kind = "nodes" THEN graph.nodes ELSE graph.objects

RankOf(id) ==
    IF graph.kind = "nodes" THEN calculateRanks(graph.nodes).ranks[id]
    ELSE calculateGraphRanks(graph).ranks[id]

PositionIn(list, id) == CHOOSE k \in 1 .. Len(list) : list[k].id = id

\* C12: topologicalSort and getSortedExecutionOrder return every node of
\* the input list exactly once, in ascending rank, nodes of equal rank
\* (Infinity included) in their input order, and leave the input list in
\* the order it had.
SortIsStablePermutation ==
    ~IsNone(order) =>
        /\ Len(order) = Len(InputList)
        /\ \A k \in 1 .. Len(InputList) :
              Cardinality({j \in 1 .. Len(order) : order[j] = InputList[k]}) = 1
        /\ \A i, j \in 1 .. Len(order) :
              i < j => /\ RankOf(order[i].id) <= RankOf(order[j].id)
                       /\ RankOf(order[i].id) = RankOf(order[j].id)
                          => PositionIn(InputList, order[i].id) < PositionIn(InputList, order[j].id)
        /\ \A k \in 1 .. Len(InputList) : InputList[k].id = NodeIds[k]

\* two nodes of rank Infinity were sorted behind a node of rank 0 that
\* followed them in the input
SortIsStablePermutationWitness ==
    /\ ~IsNone(order)
    /\ order[1].id = NodeIds[3]
    /\ RankOf(order[1].id) = 0
    /\ RankOf(order[2].id) = Infinity
    /\ RankOf(order[3].id) = Infinity

Radial(id, sourceId, count, radius) ==
    [id |-> id, type |-> "radial", inputIds |-> <<sourceId>>,
     params |-> [count |-> count, radius |-> radius, angleRange |-> <<Num(0), Num(1)>>]]

Disabled(relation) == SetField(relation, "enabled", FALSE)

GhostGenerators ==
    {Instance("bad", "ghost", <<Undefined>>),
     Grid("bad", "ghost", IVec(10, 0), IVec(0, 10), <<0, 1>>, <<0, 0>>),
     [Grid("bad", "pt", IVec(10, 0), IVec(0, 10), <<0, 1>>, <<0, 0>>) EXCEPT
         !.params = SetField(@, "sourceId", "ghost")],
     Radial("bad", "ghost", 2, Num(4))}

GhostRelations ==
    {Attach("bad", "ghost", "p1", IVec(1, 2)),
     Attach("bad", "pt", "ghost", IVec(1, 2)),
     Align("bad", "ghost", "pt"),
     Align("bad", "p1", "ghost"),
     FollowPath("bad", "ghost", "path", Rat(1, 2)),
     FollowPath("bad", "p1", "ghost", Rat(1, 2)),
     Repeat("bad", "ghost", 3, Translate(Num(2), Num(0)))}

DisabledRelations ==
    {Disabled(Attach("bad", "pt", "p1", IVec(1, 2))),
     Disabled(Align("bad", "p1", "pt")),
     Disabled(FollowPath("bad", "p1", "path", Rat(1, 2))),
     Disabled(Repeat("bad", "pt", 3, Translate(Num(2), Num(0)))),
     Disabled(FollowPath("bad", "ghost", "path", Rat(1, 2)))}

WorkingGenerator == Grid("g1", "pt", IVec(10, 0), IVec(0, 10), <<0, 1>>, <<0, 0>>)

WorkingRelations ==
    {FollowPath("follow", "p1", "path", Rat(1, 2)),
     Repeat("rep", "pt", 2, Translate(Num(2), Num(0))),
     Attach("att", "pt__grid_g1_1_0", "p1", IVec(1, 2))}

\* the lists that hold item alone, or before or behind one of the others
Around(item, others) ==
    {<<item>>} \cup UNION {{<<item, o>>, <<o, item>>} : o \in others}

MissingObjects ==
    <<Obj("p1", "primitive", Rect(Num(100), Num(100)), Translate(Num(10), Num(20))),
      Obj("path", "primitive", Polyline(<<IVec(0, 0), IVec(100, 0)>>), Undefined),
      Obj("pt", "primitive", [type |-> "point"], Translate(Num(5), Num(5)))>>

MissingScenes ==
    {Scene(MissingObjects, gens, rels, <<>>) :
        gens \in UNION {Around(g, {WorkingGenerator}) : g \in GhostGenerators},
        rels \in {<<>>} \cup {<<r>> : r \in WorkingRelations}}
    \cup {Scene(MissingObjects, gens, rels, <<>>) :
        gens \in {<<>>, <<WorkingGenerator>>},
        rels \in UNION {Around(r, WorkingRelations) : r \in GhostRelations \cup DisabledRelations}}

MissingSpec == SceneStart(MissingScenes) /\ [][Next]_vars

NotBad(list) == SelectSeq(list, LAMBDA item : item.id # "bad")

BadItems(sc) ==
    {g \in Range(sc.generators) : g.id = "bad"} \cup {r \in Range(sc.relations) : r.id = "bad"}

IsDisabled(item) == Has(item, "enabled") /\ item.enabled = FALSE

\* the scene of the latest call without its item "bad", evaluated
Reference ==
    evaluateScene([sceneBefore EXCEPT !.generators = NotBad(@), !.relations = NotBad(@)], time)

NotNaming(warnings, id) == SelectSeq(warnings, LAMBDA w : id \notin Range(w.ids))

\* C14: a generator whose source, or an enabled relation whose target, is
\* not in the working list adds exactly one warning naming it and nothing
\* else: the working list, the evaluated objects and the other warnings
\* are those of the scene without it, so every other generator and
\* relation has run.  A disabled relation adds no warning either.
MissingTargetsOnlyWarn ==
    (Called /\ BadItems(sceneBefore) # {}) =>
        /\ internals.working = Reference.internals.working
        /\ result.objects = Reference.result.objects
        /\ NotNaming(result.warnings, "bad") = Reference.result.warnings
        /\ Cardinality(WarningsNaming("bad")) =
              IF \E item \in BadItems(sceneBefore) : IsDisabled(item) THEN 0 ELSE 1

\* a followPath relation whose path is missing stood between a grid
\* generator and an attach relation to one of its clones, which both ran
MissingTargetsOnlyWarnWitness ==
    /\ Called
    /\ \E k \in 1 .. Len(sceneBefore.relations) :
          /\ sceneBefore.relations[k].id = "bad"
          /\ sceneBefore.relations[k].type = "followPath"
          /\ k < Len(sceneBefore.relations)
          /\ sceneBefore.relations[k + 1].type = "attach"
    /\ Len(internals.working) = Len(sceneBefore.objects) + 2
    /\ internals.working[1].transform # sceneBefore.objects[1].transform
    /\ Cardinality(WarningsNaming("bad")) = 1

\* the input an operator finds for ref when the outputs of the operators
\* before it are asked first and the evaluated base objects second
DeclaredInput(outputs, ref) ==
    IF outputIndex(outputs, ref, 1) > 0 THEN outputs[outputIndex(outputs, ref, 1)].result
    ELSE IF lastEvaluated(internals.evaluated, ref, Len(internals.evaluated)) > 0
    THEN internals.evaluated[lastEvaluated(internals.evaluated, ref, Len(internals.evaluated))]
    ELSE Undefined

\* what operator k of the latest call stores when it runs on inputs
StoredBy(op, inputs) ==
    CASE op.type = "affine" -> evaluateAffineOperator(op, inputs, time)
      [] op.type = "threshold" -> evaluateThresholdOperator(op, inputs)
      [] op.type = "rasterize" -> evaluateRasterizeOperator(op, inputs)
      [] op.type \in {"erode", "dilate"} -> evaluateMorphOperator(op, inputs, op.type = "erode")

\* the outputs and the skipped operators after the first k operators of the
\* latest call, each run in its place in the list on the inputs it finds
RECURSIVE InListOrder(_)
InListOrder(k) ==
    IF k = 0 THEN [outputs |-> <<>>, skipped |-> <<>>]
    ELSE LET before == InListOrder(k - 1)
             op == sceneBefore.operators[k]
             inputs == Array([i \in 1 .. Len(op.inputRefs) |->
                                 DeclaredInput(before.outputs, op.inputRefs[i])])
         IN  IF ~IsEnabled(op) THEN before
             ELSE IF \E i \in 1 .. Len(inputs) : IsUndefined(inputs[i])
             THEN [before EXCEPT !.skipped = Append(@, op.id)]
             ELSE IF op.type \notin Implemented THEN before
             ELSE [before EXCEPT !.outputs = setOutput(@, op.outputRef, StoredBy(op, inputs))]

MissingInputWarnings ==
    SelectSeq(result.warnings, LAMBDA w : w.text = "Operator % missing inputs")

\* operator k is enabled and one of its inputRefs is no base object and is
\* the outputRef of operators behind it in the list only
ProducedLaterOnly(k) ==
    /\ IsEnabled(sceneBefore.operators[k])
    /\ \E ref \in Range(sceneBefore.operators[k].inputRefs) :
          /\ ref \notin EvaluatedIds
          /\ \A j \in 1 .. (k - 1) : sceneBefore.operators[j].outputRef # ref
          /\ \E j \in (k + 1) .. Len(sceneBefore.operators) :
                sceneBefore.operators[j].outputRef = ref

\* C15: operators run in list order; each finds its inputs among the
\* outputs of the operators before it first and the evaluated base objects
\* second, and an operator whose input only an operator behind it produces
\* is skipped with a warning.
OperatorsRunInListOrder ==
    Called =>
        /\ internals.outputs = InListOrder(Len(sceneBefore.operators)).outputs
        /\ \A k \in 1 .. Len(sceneBefore.operators) :
              ProducedLaterOnly(k) =>
                 \E i \in 1 .. Len(MissingInputWarnings) :
                    MissingInputWarnings[i].ids = <<sceneBefore.operators[k].id>>

\* the result the operators left under id, and whether they left one
OutputFor(id) == internals.outputs[outputIndex(internals.outputs, id, 1)].result

HasOutput(id) == outputIndex(internals.outputs, id, 1) > 0

KindOf(res) == IF Has(res, "type") THEN res.type ELSE "none"

ErrorParams ==
    {Undefined, Null, [type |-> "bogus", value |-> Num(10)], Const(Num(10)),
     [type |-> "keyframes",
      keyframes |-> <<[t |-> Num(0), value |-> Num(0)], [t |-> Num(1), value |-> Num(10)]>>]}
    \cup {[type |-> "keyframes", keyframes |-> <<>>, interpolation |-> ip,
           extrapolation |-> ex] :
              ip \in {"step", "linear", "smooth"}, ex \in {"clamp", "repeat"}}

ErrorGeometries ==
    {Rect(Num(10), Num(10)),
     [type |-> "ellipse", width |-> Num(10), height |-> Num(5)],
     [type |-> "text", text |-> "label"]}

ErrorScenes ==
    {Scene(<<Obj("p1", "primitive", Rect(Num(100), Num(100)), t1),
             [Obj("bad", kind, geo, Undefined) EXCEPT !.visibility = visible],
             Obj("pt", "primitive", [type |-> "point"], Translate(Num(5), Num(5)))>>,
           <<>>, <<>>, ops) :
        t1 \in {Undefined, Translate(Ref("time", <<"t">>), Num(0))},
        kind \in {"primitive", "pattern"}, geo \in ErrorGeometries,
        visible \in {TRUE, FALSE},
        ops \in {<<>>, <<Operator("op1", "affine", <<"p1">>, "out1",
                                  [transform |-> Translate(Num(1), Num(1))])>>}}

ErrorInit ==
    \/ SceneStart(ErrorScenes)
    \/ /\ param \in ErrorParams
       /\ samples = <<>>
       /\ SceneIdle
       /\ RasterIdle
       /\ GraphIdle
       /\ AppIdle

\* one call evaluateParam(param, t) with whatever the caller holds as param
EvaluateAnyParam(t) ==
    /\ param # NoParam
    /\ Len(samples) < MaxCalls
    /\ samples' = Append(samples, [t |-> t, value |-> evaluateParam(param, t)])
    /\ UNCHANGED param
    /\ UNCHANGED <<sceneVars, rasterVars, graphVars>>
    /\ UNCHANGED app

ErrorNext ==
    \/ \E t \in Times : Evaluate(t)
    \/ \E t \in Times : EvaluateAnyParam(t)

ErrorSpec == ErrorInit /\ [][ErrorNext]_vars

\* a param evaluateParam has no value for
InvalidParam(p) ==
    \/ missingParam(p)
    \/ p.type \notin {"constant", "keyframes", "expr"}
    \/ p.type = "keyframes" /\ Len(p.keyframes) = 0

\* the objects of a scene that are visible primitives with a geometry type
\* outside point, line, polyline, polygon, rect and circle
UnsupportedObjects(sc) ==
    {k \in 1 .. Len(sc.objects) :
        /\ sc.objects[k].visibility # FALSE
        /\ sc.objects[k].kind = "primitive"
        /\ sc.objects[k].geometry.type \notin
              {"point", "line", "polyline", "polygon", "rect", "circle"}}

HitScenes ==
    {Scene(IF pointLast
           THEN <<Obj("p1", "primitive", Rect(Num(100), Num(100)), t1),
                  Obj("pt", "primitive", [type |-> "point"], tp)>>
           ELSE <<Obj("pt", "primitive", [type |-> "point"], tp),
                  Obj("p1", "primitive", Rect(Num(100), Num(100)), t1)>>,
           <<>>, <<>>, ops) :
        pointLast \in BOOLEAN,
        t1 \in {Undefined, Translate(Num(10), Num(20))},
        tp \in {Undefined, Translate(Num(5), Num(5)), Translate(Num(200), Num(200))},
        ops \in {<<>>, <<Operator("op1", "rasterize", <<"p1">>, "r1",
                                  [resolution |-> [width |-> 2, height |-> 2]])>>}}

HitPoints == {IVec(0, 0), IVec(5, 5), IVec(55, 65), IVec(200, 200), IVec(300, 0)}

\* one call findHitObject(result.objects, point)
FindHitObject(point) ==
    /\ calls > 0
    /\ IsNone(hit)
    /\ hit' = [point |-> point, answer |-> findHitObject(result.objects, point)]
    /\ UNCHANGED <<scene, calls, sceneBefore, time, result, console, internals,
                   prevTime, prevResult>>
    /\ UNCHANGED <<paramVars, rasterVars, graphVars>>
    /\ UNCHANGED app

HitNext ==
    \/ \E t \in Times : Evaluate(t)
    \/ \E point \in HitPoints : FindHitObject(point)

HitSpec == SceneStart(HitScenes) /\ [][HitNext]_vars

\* the half-width of the hit area of a point
HitRadius == 5

\* p lies within the hit area around q
Near(p, q) ==
    /\ RLt(RAbs(RSub(p.x, q.x)), Num(HitRadius))
    /\ RLt(RAbs(RSub(p.y, q.y)), Num(HitRadius))

\* the geometry contains p: a point by its evaluated world position, every
\* other type as pointInsideGeometry tests it
Contains(geometry, p) ==
    IF geometry.type = "point" THEN Near(p, geometry.points[1])
    ELSE pointInsideGeometry(p, geometry)

Containing(objects, p) ==
    {i \in 1 .. Len(objects) :
        Defined(objects[i], "geometry") /\ Contains(objects[i].geometry, p)}

\* C18: findHitObject returns the id of the last object whose geometry
\* contains the point and null when none does, a point geometry containing
\* the points within a small radius of its evaluated world position.
HitIsLastContaining ==
    ~IsNone(hit) =>
        LET containing == Containing(result.objects, hit.point)
        IN  IF containing = {} THEN hit.answer = Null
            ELSE hit.answer =
                    [objectId |-> result.objects[CHOOSE i \in containing :
                                                    \A j \in containing : j <= i].objectId]

(***************************************************************************)
(* Styles: scenes with a list of named styles (or none) whose two objects  *)
(* carry no style, an inline style, or a reference to a named style        *)
(***************************************************************************)
NamedStyles ==
    <<[id |-> "s1", strokeColor |-> "red", fillColor |-> "blue"],
      [id |-> "s2", strokeColor |-> "black", fillColor |-> "none"]>>

StyleRef(refId) == [mode |-> "ref", refId |-> refId]

ObjectStyles ==
    {Undefined, [strokeColor |-> "green"],
     StyleRef("s1"), StyleRef("s2"), StyleRef("ghost"),
     SetField(StyleRef("s1"), "overrides", [fillColor |-> "white", strokeWidth |-> "2"]),
     SetField(StyleRef("ghost"), "overrides", [fillColor |-> "white"])}

StyleScenes ==
    {[Scene(<<[Obj("p1", "primitive", Rect(Num(100), Num(100)), Undefined)
                  EXCEPT !.style = s1],
              [Obj("pt", "primitive", [type |-> "point"], Undefined)
                  EXCEPT !.style = s2]>>,
            <<>>, <<>>, <<>>) EXCEPT !.styles = styles] :
        s1 \in ObjectStyles, s2 \in ObjectStyles,
        styles \in {Undefined, <<>>, NamedStyles}}

StyleSpec == SceneStart(StyleScenes) /\ [][Next]_vars

\* the objects of the scene whose style is a reference
Referencing(sc) ==
    {k \in 1 .. Len(sc.objects) :
        /\ ~IsUndefined(sc.objects[k].style)
        /\ Has(sc.objects[k].style, "mode")
        /\ sc.objects[k].style.mode = "ref"}

\* the styles of the scene that have the id
Named(sc, refId) ==
    IF IsUndefined(sc.styles) THEN {}
    ELSE {i \in 1 .. Len(sc.styles) : sc.styles[i].id = refId}

\* style is base with the keys of overrides laid over it
MergedOver(style, base, overrides) ==
    /\ DOMAIN style = DOMAIN base \cup DOMAIN overrides
    /\ \A key \in DOMAIN style :
          style[key] = IF key \in DOMAIN overrides THEN overrides[key] ELSE base[key]

\* C19: an object with a style reference is evaluated to the named style
\* with the overrides laid over it, the scene's named styles staying as
\* they were; when the reference names no style of the scene the object is
\* evaluated with a default style and a warning names the dangling id.
StyleRefsResolve ==
    Called =>
        /\ scene.styles = sceneBefore.styles
        /\ \A k \in Referencing(sceneBefore) :
              LET ref == sceneBefore.objects[k].style
                  named == Named(sceneBefore, ref.refId)
                  style == result.objects[k].style
              IN  /\ result.objects[k].objectId = sceneBefore.objects[k].id
                  /\ IF named # {}
                     THEN MergedOver(style,
                                     sceneBefore.styles[CHOOSE i \in named :
                                                            \A j \in named : i <= j],
                                     IF Has(ref, "overrides") THEN ref.overrides ELSE <<>>)
                     ELSE /\ ~IsUndefined(style)
                          /\ ~Has(style, "refId")
                          /\ \E w \in 1 .. Len(result.warnings) :
                                \E i \in 1 .. Len(result.warnings[w].ids) :
                                   result.warnings[w].ids[i] = ref.refId

(***************************************************************************)
(* Followers with a transform of their own, with and without tangentAlign, *)
(* on paths of axis-parallel segments                                      *)
(***************************************************************************)
AxisPaths ==
    {<<IVec(0, 0), IVec(100, 0)>>,
     <<IVec(0, 0), IVec(0, 50)>>,
     <<IVec(10, 10), IVec(10, 60)>>,
     <<IVec(0, 0), IVec(100, 0), IVec(100, 50)>>}

PriorTransforms == {Undefined, Translate(Num(10), Num(20)), [rotate |-> Const(Num(1))]}

PlacedScenes ==
    {Scene(<<Obj("p1", "primitive", Rect(Num(100), Num(100)), prior),
             Obj("path", "primitive", Polyline(path), Undefined)>>,
           <<>>,
           <<IF align
             THEN [FollowPath("follow", "p1", "path", u) EXCEPT
                      !.params = SetField(@, "tangentAlign", TRUE)]
             ELSE FollowPath("follow", "p1", "path", u)>>,
           <<>>) :
        prior \in PriorTransforms, path \in AxisPaths, u \in PathParameters,
        align \in BOOLEAN}

PlacedSpec == SceneStart(PlacedScenes) /\ [][Next]_vars

TangentAligned == Has(sceneBefore.relations[1].params, "tangentAlign")

\* the angle of the path segment the follower stands on
SegmentAngle ==
    LET u == RMax(Num(0), RMin(Num(1), FollowU))
        direction == tangentDirection(FollowPoints, u)
    IN  Atan2(direction.y, direction.x)

\* C20: after the followPath relation is resolved the translation entries
\* of the object's matrix are the path point at clamp(u, 0, 1), whatever
\* transform the object had before and with or without tangentAlign; with
\* tangentAlign the object's prior rotation and scale are followed by the
\* rotation by the angle of the local segment, and are kept without it.
FollowerStandsOnPath ==
    Called =>
        LET m == evaluateTransform(internals.working[1].transform, time)
            prior == evaluateTransform(sceneBefore.objects[1].transform, time)
            turned == IF TangentAligned THEN mat3Multiply(prior, mat3Rotate(SegmentAngle))
                      ELSE prior
        IN  /\ Vec(m[7], m[8]) = FollowExpected
            /\ SubSeq(m, 1, 6) = SubSeq(turned, 1, 6)

(***************************************************************************)
(* Alignment: object a with a transform of its own, scale included, is     *)
(* aligned to object b                                                     *)
(***************************************************************************)
AlignedTransforms ==
    {Undefined, Translate(Num(10), Num(20)), [scale |-> Const(Num(2))],
     [translate |-> Const(IVec(10, 20)), scale |-> Const(Num(2))]}

AlignRelations ==
    {Align("al", "a", "b"),
     [Align("al", "a", "b") EXCEPT !.params = [anchor |-> "topLeft"]],
     [Align("al", "a", "b") EXCEPT !.params = <<>>]}

AlignScenes ==
    {Scene(<<Obj("a", kindA, Rect(Num(100), Num(50)), ta),
             Obj("b", kindB, Rect(Num(20), Num(20)), tb)>>,
           <<>>, <<rel>>, <<>>) :
        kindA \in {"primitive", "pattern"}, kindB \in {"primitive", "composite"},
        ta \in AlignedTransforms, tb \in {Undefined, Translate(Num(30), Num(40))},
        rel \in AlignRelations}

AlignSpec == SceneStart(AlignScenes) /\ [][Next]_vars

AlignAnchor ==
    IF Has(sceneBefore.relations[1].params, "anchor")
    THEN sceneBefore.relations[1].params.anchor ELSE "center"

BothPrimitive ==
    sceneBefore.objects[1].kind = "primitive" /\ sceneBefore.objects[2].kind = "primitive"

\* C21: after an align relation between primitives a and b the anchor
\* point of a's world bounds is the anchor point of b's world bounds,
\* whatever transform a had, and b's transform is as it was; when one of
\* the two is no primitive neither is moved and a warning is added.
AlignMovesFirstOntoSecond ==
    Called =>
        /\ internals.working[2].transform = sceneBefore.objects[2].transform
        /\ IF BothPrimitive
           THEN anchorPoint(result.objects[1].geometry.bounds, AlignAnchor)
                   = anchorPoint(result.objects[2].geometry.bounds, AlignAnchor)
           ELSE /\ internals.working[1].transform = sceneBefore.objects[1].transform
                /\ \E w \in 1 .. Len(result.warnings) :
                      result.warnings[w].ids = <<"al">>

(***************************************************************************)
(* Attachment: a child with a transform of its own is attached to a parent *)
(* under every setting of the two inheritance flags                        *)
(***************************************************************************)
ParentTransforms ==
    {Undefined, Translate(Num(10), Num(20)), [scale |-> Const(Num(2))],
     [translate |-> Const(IVec(10, 20)), rotate |-> Const(Num(1)), scale |-> Const(Num(2))]}

ChildTransforms == {Undefined, Translate(Num(7), Num(7)), [rotate |-> Const(Num(1))]}

FlagSettings == {"unset", "true", "false"}

\* params with the flag set as the setting says
WithFlag(params, flag, setting) ==
    IF setting = "unset" THEN params ELSE SetField(params, flag, setting = "true")

AttachParams ==
    {WithFlag(WithFlag(base, "inheritRotation", rotation), "inheritScale", scale) :
        base \in {<<>>, [offset |-> Const(IVec(5, 0))]},
        rotation \in FlagSettings, scale \in FlagSettings}

AttachScenes ==
    {Scene(<<Obj("parent", "primitive", Rect(Num(100), Num(50)), tp),
             Obj("child", "primitive", Rect(Num(20), Num(20)), tc)>>,
           <<>>,
           <<[Attach("at", "parent", "child", IVec(0, 0)) EXCEPT !.params = params]>>,
           <<>>) :
        tp \in ParentTransforms, tc \in ChildTransforms, params \in AttachParams}

AttachSpec == SceneStart(AttachScenes) /\ [][Next]_vars

AttachFlags == sceneBefore.relations[1].params

FlagOff(flag) == Has(AttachFlags, flag) /\ AttachFlags[flag] = FALSE

ParentMatrix == evaluateTransform(sceneBefore.objects[1].transform, time)

AttachOffset ==
    IF Has(AttachFlags, "offset") THEN AttachFlags.offset.value ELSE IVec(0, 0)

\* C22: after an attach relation the child's transform is the one matrix
\* inherit(parentMatrix) . translate(offset), offset (0,0) when absent,
\* with inherit the parent's matrix when both flags are true or unset and
\* the translation by the parent's translation when both are false; the
\* child's earlier transform plays no part and the parent's transform is
\* as it was.
AttachComposesParentAndOffset ==
    Called =>
        /\ internals.working[1].transform = sceneBefore.objects[1].transform
        /\ DOMAIN internals.working[2].transform = {"matrix"}
        /\ internals.working[2].transform.matrix.type = "constant"
        /\ (~FlagOff("inheritRotation") /\ ~FlagOff("inheritScale")) =>
              internals.working[2].transform.matrix.value =
                 mat3Multiply(ParentMatrix, mat3Translate(AttachOffset.x, AttachOffset.y))
        /\ (FlagOff("inheritRotation") /\ FlagOff("inheritScale")) =>
              internals.working[2].transform.matrix.value =
                 mat3Multiply(mat3Translate(ParentMatrix[7], ParentMatrix[8]),
                              mat3Translate(AttachOffset.x, AttachOffset.y))

\* a child with a translate of its own attached, with both flags false
\* and an offset, to a translated, rotated and scaled parent
AttachComposesParentAndOffsetWitness ==
    /\ calls = 1
    /\ FlagOff("inheritRotation") /\ FlagOff("inheritScale")
    /\ Has(AttachFlags, "offset")
    /\ sceneBefore.objects[2].transform = Translate(Num(7), Num(7))
    /\ ~IsUndefined(sceneBefore.objects[1].transform)
    /\ Has(sceneBefore.objects[1].transform, "rotate")
    /\ internals.working[2].transform.matrix.value = mat3Translate(Num(15), Num(20))

(***************************************************************************)
(* Repetition: object "o", with a transform of its own, is repeated count  *)
(* times along a delta transform                                           *)
(***************************************************************************)
MaxCount == 3

RepeatedTransforms ==
    {Undefined, Translate(Num(10), Num(20)), [scale |-> Const(Num(2))],
     [translate |-> Const(IVec(10, 20)), rotate |-> Const(Num(1))]}

DeltaTransforms ==
    {Translate(Num(10), Num(0)), [rotate |-> Const(Num(1))],
     [translate |-> Const(IVec(10, 0)), scale |-> Const(Num(2))]}

RepeatParams ==
    {[count |-> n, deltaTransform |-> delta] : n \in (-1) .. MaxCount, delta \in DeltaTransforms}
    \cup {[count |-> n] : n \in 1 .. MaxCount}
    \cup {[deltaTransform |-> delta] : delta \in DeltaTransforms}

RepeatScenes ==
    {Scene(<<Obj("o", "primitive", Rect(Num(20), Num(10)), to),
             Obj("other", "primitive", [type |-> "point"], Undefined)>>,
           <<>>,
           <<[Repeat("rp", "o", 1, Undefined) EXCEPT !.params = params]>>,
           <<>>) :
        to \in RepeatedTransforms, params \in RepeatParams}

RepeatSpec == SceneStart(RepeatScenes) /\ [][Next]_vars

RepeatGiven == sceneBefore.relations[1].params

\* the count n of the relation, 1 when it has none
RepeatN == IF Has(RepeatGiven, "count") THEN RepeatGiven.count ELSE 1

RepeatClones == (IF RepeatN > 1 THEN RepeatN ELSE 1) - 1

RepeatDelta ==
    IF Has(RepeatGiven, "deltaTransform")
    THEN evaluateTransform(RepeatGiven.deltaTransform, time)
    ELSE mat3Identity

\* M(k) = M(k - 1) . D, M(0) the matrix of the repeated object
RECURSIVE RepeatMatrix(_)
RepeatMatrix(k) ==
    IF k = 0 THEN evaluateTransform(sceneBefore.objects[1].transform, time)
    ELSE mat3Multiply(RepeatMatrix(k - 1), RepeatDelta)

\* the delta is a translation and nothing else
PureTranslation ==
    Has(RepeatGiven, "deltaTransform") /\ DOMAIN RepeatGiven.deltaTransform = {"translate"}

\* the clones are appended behind the scene's objects, the repeated object
\* is as it was, and clone k has the id, the relation as generatedBy and
\* the matrix M(k)
ClonesChainDelta ==
    /\ Len(internals.working) = Len(sceneBefore.objects) + RepeatClones
    /\ internals.working[1] = sceneBefore.objects[1]
    /\ \A k \in 1 .. RepeatClones :
          LET clone == internals.working[Len(sceneBefore.objects) + k]
          IN  /\ clone.id = "o__repeat_rp_" \o ToString(k)
              /\ clone.generatedBy = "rp"
              /\ clone.transform = matrixOnly(RepeatMatrix(k))

\* C23 as claimed: a repeat relation of count n appends max(n, 1) - 1
\* clones and leaves the object as it was; clone k has the matrix
\* M(k) = M(k - 1) . D, the deterministic id and the relation as
\* generatedBy, and for a delta that is a translation by d it stands at
\* the object's position + k * d.
RepeatClonesStepByDelta ==
    Called =>
        /\ ClonesChainDelta
        /\ PureTranslation =>
              \A k \in 1 .. RepeatClones :
                 LET d == RepeatGiven.deltaTransform.translate.value
                 IN  /\ RepeatMatrix(k)[7]
                          = RAdd(RepeatMatrix(0)[7], RMul(Num(k), d.x))
                     /\ RepeatMatrix(k)[8]
                          = RAdd(RepeatMatrix(0)[8], RMul(Num(k), d.y))

\* the step of the object's position from one clone to the next: the
\* object's rotation and scale applied to d
RepeatStep(d) ==
    LET m == RepeatMatrix(0)
    IN  Vec(RAdd(RMul(m[1], d.x), RMul(m[4], d.y)), RAdd(RMul(m[2], d.x), RMul(m[5], d.y)))

\* C23 amended: as claimed, but for a delta that is a translation by d
\* clone k stands at the object's position + k * (the object's rotation
\* and scale applied to d), which is position + k * d only for an object
\* without rotation and scale.
RepeatClonesStepByTurnedDelta ==
    Called =>
        /\ ClonesChainDelta
        /\ PureTranslation =>
              \A k \in 1 .. RepeatClones :
                 LET step == RepeatStep(RepeatGiven.deltaTransform.translate.value)
                     clone == internals.working[Len(sceneBefore.objects) + k]
                 IN  /\ clone.transform.matrix.value[7]
                          = RAdd(RepeatMatrix(0)[7], RMul(Num(k), step.x))
                     /\ clone.transform.matrix.value[8]
                          = RAdd(RepeatMatrix(0)[8], RMul(Num(k), step.y))

\* an object scaled by 2 repeated three times along a translation by
\* (10,0): the second clone stands at (40,0)
RepeatClonesStepByTurnedDeltaWitness ==
    /\ Called
    /\ RepeatClones = 2
    /\ PureTranslation
    /\ sceneBefore.objects[1].transform = [scale |-> Const(Num(2))]
    /\ internals.working[4].transform.matrix.value[7] = Num(40)
    /\ internals.working[4].transform.matrix.value[8] = Num(0)

(***************************************************************************)
(* Generators on clones: generator "ga" instances p1 twice, generator "gb" *)
(* takes a clone of "ga" as its source and stands behind or before "ga",   *)
(* and a relation targets a clone                                          *)
(***************************************************************************)
FirstGenerator == Instance("ga", "p1", <<Translate(Num(3), Num(0)), Undefined>>)

SecondGenerators ==
    {Instance("gb", "p1__inst_ga_0", <<Translate(Num(0), Num(5))>>),
     Grid("gb", "p1__inst_ga_1", IVec(10, 0), IVec(0, 10), <<0, 1>>, <<0, 0>>),
     Radial("gb", "p1__inst_ga_0", 2, Num(10))}

CloneGeneratorLists ==
    {<<FirstGenerator>>}
    \cup {<<FirstGenerator, gb>> : gb \in SecondGenerators}
    \cup {<<gb, FirstGenerator>> : gb \in SecondGenerators}

CloneRelations ==
    {<<>>,
     <<Repeat("rp", "p1__inst_ga_0", 2, Translate(Num(1), Num(0)))>>,
     <<Attach("at", "p1", "p1__inst_ga_1", IVec(5, 0))>>,
     <<Repeat("rp", "p1__inst_ga_0__inst_gb_0", 2, Translate(Num(1), Num(0)))>>}

CloneScenes ==
    {Scene(<<Obj("p1", "primitive", Rect(Num(100), Num(100)), t1)>>, gens, rels, <<>>) :
        t1 \in {Undefined, Translate(Num(10), Num(20))},
        gens \in CloneGeneratorLists, rels \in CloneRelations}

CloneSpec == SceneStart(CloneScenes) /\ [][Next]_vars

\* the ids a generator gives the clones of its source
CloneIds(g) ==
    LET src == g.inputIds[1]
    IN  CASE g.type = "instance" ->
                {src \o "__inst_" \o g.id \o "_" \o ToString(i) :
                    i \in 0 .. (Len(g.params.transforms) - 1)}
          [] g.type = "grid" ->
                {src \o "__grid_" \o g.id \o "_" \o ToString(i) \o "_" \o ToString(j) :
                    i \in g.params.range.i[1] .. g.params.range.i[2],
                    j \in g.params.range.j[1] .. g.params.range.j[2]}
          [] g.type = "radial" ->
                {src \o "__radial_" \o g.id \o "_" \o ToString(i) :
                    i \in 0 .. (g.params.count - 1)}

\* generator k finds its source: a base object, or a clone of a generator
\* before it in the list that found its own
RECURSIVE FindsSource(_)
FindsSource(k) ==
    LET gens == sceneBefore.generators
    IN  \/ gens[k].inputIds[1] \in {o.id : o \in Range(sceneBefore.objects)}
        \/ \E j \in 1 .. (k - 1) : FindsSource(j) /\ gens[k].inputIds[1] \in CloneIds(gens[j])

\* the entries of the working list behind the scene's objects
Appended == (Len(sceneBefore.objects) + 1) .. Len(internals.working)

WorkingIds == {internals.working[i].id : i \in 1 .. Len(internals.working)}

\* C24: every clone of a generator stands behind the scene's objects in
\* the working list with its deterministic id, the generator as
\* generatedBy and a matrix-only transform; a generator whose source is a
\* clone of a generator before it in the list finds it, one whose source is
\* a clone of a generator behind it is skipped with a warning, and a
\* relation that targets a clone finds it.
ClonesVisibleDownstream ==
    Called =>
        /\ \A k \in 1 .. Len(sceneBefore.generators) :
              LET g == sceneBefore.generators[k]
                  made == {i \in Appended : internals.working[i].generatedBy = g.id}
              IN  IF FindsSource(k)
                  THEN /\ {internals.working[i].id : i \in made} = CloneIds(g)
                       /\ Cardinality(made) = Cardinality(CloneIds(g))
                       /\ \A i \in made :
                             /\ DOMAIN internals.working[i].transform = {"matrix"}
                             /\ internals.working[i].transform.matrix.type = "constant"
                       /\ WarningsNaming(g.id) = {}
                  ELSE /\ made = {}
                       /\ WarningsNaming(g.id) # {}
        /\ \A r \in 1 .. Len(sceneBefore.relations) :
              LET rel == sceneBefore.relations[r]
              IN  IF RelationTargets(rel) \subseteq
                        {o.id : o \in Range(sceneBefore.objects)}
                           \cup UNION {CloneIds(sceneBefore.generators[k]) :
                                          k \in {j \in 1 .. Len(sceneBefore.generators) :
                                                    FindsSource(j)}}
                  THEN /\ WarningsNaming(rel.id) = {}
                       /\ rel.type = "repeat" =>
                             (rel.targets.objectId \o "__repeat_" \o rel.id \o "_1")
                                \in WorkingIds
                  ELSE WarningsNaming(rel.id) # {}

\* a grid generator has cloned the second clone of the instance generator
\* before it, and a relation has repeated the first clone
ClonesVisibleDownstreamWitness ==
    /\ Called
    /\ Len(sceneBefore.generators) = 2
    /\ sceneBefore.generators[2].type = "grid"
    /\ "p1__inst_ga_1__grid_gb_1_0" \in WorkingIds
    /\ "p1__inst_ga_0__repeat_rp_1" \in WorkingIds

(***************************************************************************)
(* References: object "x" refers to object "y" (or to itself) in its width *)
(* or in its translate, "y" stands before or behind it and is visible or   *)
(* hidden, and object "clock" follows the time from each position          *)
(***************************************************************************)
Referring ==
    {Obj("x", "primitive", Rect(Ref("y", <<"bounds", "max", "x">>), Num(10)), Undefined),
     Obj("x", "primitive", Rect(Ref("x", <<"bounds", "max", "x">>), Num(10)), Undefined),
     Obj("x", "primitive", Rect(Num(30), Num(10)),
         Translate(Ref("y", <<"geometry", "bounds", "max", "x">>), Num(0)))}

Referred ==
    {[Obj("y", "primitive", Rect(Num(40), Num(20)), Translate(Num(5), Num(5)))
         EXCEPT !.visibility = visible] : visible \in BOOLEAN}

Clock == Obj("clock", "primitive", Rect(Num(2), Num(2)), Translate(Ref("time", <<"t">>), Num(0)))

\* list with item put in as entry k
InsertAt(list, k, item) == SubSeq(list, 1, k - 1) \o <<item>> \o SubSeq(list, k, Len(list))

ReferenceScenes ==
    {Scene(InsertAt(IF before THEN <<y, x>> ELSE <<x, y>>, k, Clock), gens, <<>>, <<>>) :
        x \in Referring, y \in Referred, before \in BOOLEAN, k \in 1 .. 3,
        gens \in {<<>>, <<Instance("g", "x", <<Translate(Num(0), Num(50))>>)>>}}

ReferenceSpec == SceneStart(ReferenceScenes) /\ [][Next]_vars

\* the entry of the evaluated list for the object at k of the working list
EvaluatedAt(k) ==
    internals.evaluated[Cardinality({j \in 1 .. k :
                                        internals.working[j].visibility # FALSE})]

\* the working objects before k that are visible and have the id
VisibleBefore(id, k) ==
    {j \in 1 .. (k - 1) :
        internals.working[j].id = id /\ internals.working[j].visibility # FALSE}

\* what the claim gives a reference of the object at k: the time, the
\* right edge of the bounds of the visible target before it, or 0
Referenced(ref, k) ==
    IF ref.targetId = "time" THEN time
    ELSE IF VisibleBefore(ref.targetId, k) # {}
    THEN EvaluatedAt(CHOOSE j \in VisibleBefore(ref.targetId, k) : TRUE).geometry.bounds.max.x
    ELSE Num(0)

Uniform(raster, value) == \A k \in 1 .. Len(raster.pixels) : raster.pixels[k] = value

\* C26: neighbours outside the raster are absent: eroding a raster of
\* pixels 255 gives pixels 255 up to the border, dilating a raster of
\* pixels 0 gives pixels 0, and the output of either has the width, the
\* height and the pixel count of its input.
OutsideIsAbsent ==
    LastOperator \in {"erode", "dilate"} =>
        /\ <<rasterOut.width, rasterOut.height, Len(rasterOut.pixels)>>
              = <<rasterIn.width, rasterIn.height, Len(rasterIn.pixels)>>
        /\ (LastOperator = "erode" /\ Uniform(rasterIn, 255)) => Uniform(rasterOut, 255)
        /\ (LastOperator = "dilate" /\ Uniform(rasterIn, 0)) => Uniform(rasterOut, 0)

\* a raster of the largest width and two rows of pixels 255 has been eroded
OutsideIsAbsentWitness ==
    /\ chain = <<"erode">>
    /\ rasterIn.width = MaxWidth /\ rasterIn.height = 2
    /\ Uniform(rasterIn, 255)
    /\ Uniform(rasterOut, 255)

(***************************************************************************)
(* The editor's playback: App.play, App.pause, App.resetTimeline and the   *)
(* renderLoop callbacks that requestAnimationFrame holds for the next      *)
(* animation frame.  An object is [id, translate, physics, delta]:         *)
(* translate is Undefined when the object has no transform or a transform  *)
(* without translate (the code treats both alike), physics is Undefined or *)
(* the boxed id of its physics component, delta is the legacy obj.delta.   *)
(* The scenes have no relations, so p5.redraw leaves the objects as they   *)
(* are.                                                                    *)
(***************************************************************************)
MaxTicks == 5

NewTranslate == [type |-> "constant", x |-> 0, y |-> 0]

componentMapGet(components, id) ==
    LET found == {i \in DOMAIN components : components[i].id = id}
    IN  IF found = {} THEN Undefined
        ELSE components[CHOOSE i \in found : \A j \in found : j <= i]

captureInitialState(objects) ==
    LET kept == SelectSeq(objects, LAMBDA obj : ~IsUndefined(obj.translate))
    IN  [entries |-> Array([i \in DOMAIN kept |->
                               [id |-> kept[i].id, x |-> kept[i].translate.x,
                                y |-> kept[i].translate.y]])]

cacheGet(cache, id) == componentMapGet(cache.entries, id)

restoreObject(cache, obj) ==
    LET cached == cacheGet(cache, obj.id)
        translate == IF IsUndefined(obj.translate) THEN NewTranslate
                     ELSE obj.translate
    IN  IF IsUndefined(cached) THEN obj
        ELSE [obj EXCEPT !.translate =
                 [translate EXCEPT !.x = cached.x, !.y = cached.y]]

restoreInitialState(a) ==
    IF IsUndefined(a.initialStateCache) THEN a
    ELSE [a EXCEPT !.objects =
             Array([i \in DOMAIN a.objects |->
                       restoreObject(a.initialStateCache, a.objects[i])])]

applyDelta(obj, delta) ==
    LET translate == IF IsUndefined(obj.translate) THEN NewTranslate
                     ELSE obj.translate
    IN  [obj EXCEPT !.translate =
            IF translate.type = "constant"
            THEN [translate EXCEPT !.x = @ + delta.x, !.y = @ + delta.y]
            ELSE translate]

updateObject(components, obj) ==
    IF ~IsUndefined(obj.physics)
    THEN LET physComp == componentMapGet(components, obj.physics.id)
         IN  IF IsUndefined(physComp) THEN obj
             ELSE IF IsUndefined(physComp.delta) THEN obj
             ELSE applyDelta(obj, physComp.delta)
    ELSE IF ~IsUndefined(obj.delta) THEN applyDelta(obj, obj.delta)
    ELSE obj

updateState(a) ==
    [a EXCEPT !.objects =
        Array([i \in DOMAIN a.objects |-> updateObject(a.components, a.objects[i])])]

\* One renderLoop call; the callback it requests waits for the next frame.
renderLoop(a) ==
    IF a.isPlaying
    THEN Bind(updateState([a EXCEPT !.t = @ + 1]),
              LAMBDA updated : [updated EXCEPT !.requested = @ + 1, !.ran = @ + 1])
    ELSE a

RECURSIVE runCallbacks(_, _)
runCallbacks(a, n) ==
    IF n = 0 THEN a ELSE runCallbacks(renderLoop(a), n - 1)

AppObject(id, translate, physics, delta) ==
    [id |-> id, translate |-> translate, physics |-> physics, delta |-> delta]

At(x, y) == [type |-> "constant", x |-> x, y |-> y]

Physics == [id |-> "phys"]

AppComponents == <<[id |-> "phys", delta |-> [x |-> 0, y |-> 3]]>>

AppScenes ==
    { <<AppObject("a", At(10, 20), Undefined, [x |-> 1, y |-> 0]),
        AppObject("f", At(7, 7), Undefined, Undefined)>>,
      <<AppObject("b", Undefined, Undefined, [x |-> 2, y |-> 0])>>,
      <<AppObject("c", At(5, 5), Physics, Undefined),
        AppObject("e", At(1, 1), [id |-> "gone"], [x |-> 1, y |-> 1])>>,
      <<AppObject("d", Undefined, Physics, Undefined),
        AppObject("a", At(10, 20), Undefined, [x |-> 1, y |-> 0])>> }

\* pending counts the renderLoop callbacks waiting for the next animation
\* frame and ran the renderLoop calls that found the timeline playing;
\* lastFrame, atPlay and wasReset record what the latest frame did,
\* the objects as the latest play() at t = 0 found them, and whether the
\* latest call was resetTimeline.
PlaybackInit ==
    /\ \E objects \in AppScenes :
          app = [t |-> 0, isPlaying |-> FALSE, pending |-> 0, requested |-> 0,
                 ran |-> 0,
                 objects |-> objects, components |-> AppComponents,
                 initialStateCache |-> Undefined,
                 lastFrame |-> None, atPlay |-> None, wasReset |-> FALSE]
    /\ ParamIdle
    /\ SceneIdle
    /\ RasterIdle
    /\ GraphIdle

Queue(a) == [a EXCEPT !.pending = @ + a.requested, !.requested = 0]

Play ==
    /\ ~IsNone(app)
    /\ app.isPlaying \/ app.ran < MaxTicks
    /\ LET captured == IF app.t = 0
                       THEN [app EXCEPT !.initialStateCache =
                                            captureInitialState(app.objects),
                                        !.atPlay = [objects |-> app.objects]]
                       ELSE app
       IN  app' = IF app.isPlaying THEN [app EXCEPT !.wasReset = FALSE]
                  ELSE Queue(renderLoop([captured EXCEPT !.isPlaying = TRUE,
                                                         !.wasReset = FALSE]))
    /\ UNCHANGED <<paramVars, sceneVars, rasterVars, graphVars>>

Pause ==
    /\ ~IsNone(app)
    /\ app' = [app EXCEPT !.isPlaying = FALSE, !.wasReset = FALSE]
    /\ UNCHANGED <<paramVars, sceneVars, rasterVars, graphVars>>

ResetTimeline ==
    /\ ~IsNone(app)
    /\ app' = [restoreInitialState([app EXCEPT !.isPlaying = FALSE, !.t = 0])
                  EXCEPT !.wasReset = TRUE]
    /\ UNCHANGED <<paramVars, sceneVars, rasterVars, graphVars>>

\* One animation frame: the browser runs every callback requested before it.
AnimationFrame ==
    /\ ~IsNone(app)
    /\ app.pending > 0
    /\ ~app.isPlaying \/ app.ran + app.pending <= MaxTicks
    /\ LET ran == runCallbacks([app EXCEPT !.pending = 0], app.pending)
       IN  app' = Queue([ran EXCEPT !.wasReset = FALSE,
                                    !.lastFrame = [playing |-> app.isPlaying,
                                                   advance |-> ran.t - app.t]])
    /\ UNCHANGED <<paramVars, sceneVars, rasterVars, graphVars>>

PlaybackNext ==
    \/ Play
    \/ Pause
    \/ ResetTimeline
    \/ AnimationFrame

PlaybackSpec == PlaybackInit /\ [][PlaybackNext]_vars

\* C27: at most one renderLoop chain is active, so at most one callback
\* waits for the next animation frame, and a frame advances timeline.t by
\* exactly 1 while playing and by 0 while paused.
OneChainOneTickPerFrame ==
    ~IsNone(app) =>
        /\ app.pending <= 1
        /\ ~IsNone(app.lastFrame) =>
              app.lastFrame.advance = IF app.lastFrame.playing THEN 1 ELSE 0

\* the dependencies of the node that are nodes of the list themselves
PresentDependencies(id) == DependenciesOf(id) \cap GraphIds

RECURSIVE addOutputs(_, _, _)
addOutputs(gen, adj, i) ==
    IF i > Len(gen.outputIds) THEN adj
    ELSE Bind(IF gen.outputIds[i] \in DOMAIN adj THEN adj[gen.outputIds[i]] ELSE <<>>,
              LAMBDA had :
                  addOutputs(gen,
                             mapSet(adj, gen.outputIds[i],
                                    IF Has(gen, "inputIds") THEN had \o gen.inputIds
                                    ELSE had),
                             i + 1))

\* the loop over scene.generators that fills adj
RECURSIVE buildAdjacency(_, _, _)
buildAdjacency(generators, k, adj) ==
    IF k > Len(generators) THEN adj
    ELSE IF ~Has(generators[k], "outputIds") THEN buildAdjacency(generators, k + 1, adj)
    ELSE buildAdjacency(generators, k + 1, addOutputs(generators[k], adj, 1))

\* an adjacency that holds no edge
noneAdjacent(adj, curr) == <<>>

\* adj.get(curr) || []
adjacentOrEmpty(adj, curr) == IF curr \in DOMAIN adj THEN adj[curr] ELSE <<>>

\* the while loop of validateConnection
RECURSIVE walkConnection(_, _, _, _)
walkConnection(adj, targetId, visited, stack) ==
    IF Len(stack) = 0 THEN TRUE
    ELSE Bind(stack[Len(stack)], LAMBDA curr :
         IF curr = targetId THEN FALSE
         ELSE IF curr \in visited
         THEN walkConnection(adj, targetId, visited, SubSeq(stack, 1, Len(stack) - 1))
         ELSE walkConnection(adj, targetId, visited \cup {curr},
                             SubSeq(stack, 1, Len(stack) - 1) \o adjacentOrEmpty(adj, curr)))

validateConnection(sc, inputId, targetId) ==
    walkConnection(IF Has(sc, "generators") THEN buildAdjacency(sc.generators, 1, NoMap)
                   ELSE NoMap,
                   targetId, {}, <<inputId>>)

ConnectionInit ==
    /\ graph \in SceneGraphs
    /\ ranks = None
    /\ order = None
    /\ detected = None
    /\ ParamIdle
    /\ SceneIdle
    /\ RasterIdle
    /\ AppIdle

ValidateConnection ==
    /\ IsNone(detected)
    /\ \E inputId \in Ids, targetId \in Ids :
          detected' = [inputId |-> inputId, targetId |-> targetId,
                       valid |-> validateConnection(graph, inputId, targetId)]
    /\ UNCHANGED <<graph, ranks, order, paramVars, sceneVars, rasterVars>>
    /\ UNCHANGED app

ConnectionNext == ValidateConnection

ConnectionSpec == ConnectionInit /\ [][ConnectionNext]_vars

\* the inputIds of every generator whose outputIds contain the id, in the
\* order of the generators
RECURSIVE ParentsFrom(_, _, _)
ParentsFrom(generators, id, k) ==
    IF k > Len(generators) THEN <<>>
    ELSE (IF Has(generators[k], "outputIds") /\ id \in Range(generators[k].outputIds)
             /\ Has(generators[k], "inputIds")
          THEN generators[k].inputIds ELSE <<>>)
         \o ParentsFrom(generators, id, k + 1)

AllIds == NodeIds \o <<ExternalId>>

\* the node list whose deps are parentsOf
GeneratorNodes ==
    Array([k \in 1 .. Len(AllIds) |->
              [id |-> AllIds[k], deps |-> ParentsFrom(graph.generators, AllIds[k], 1)]])

\* C29: validateConnection(scene, inputId, targetId) is the negation of
\* detectsCycle(inputId, targetId, parentsOf), parentsOf(id) being the
\* inputIds of every generator whose outputIds contain id; equal ids are
\* rejected, and the walk ends on generator edges that contain a cycle.
CycleChecksAgree ==
    ~IsNone(detected) =>
        /\ detected.valid = ~detectsCycle(GeneratorNodes, detected.inputId, detected.targetId)
        /\ detected.inputId = detected.targetId => ~detected.valid

\* the generator edges hold a cycle through inputId, targetId is another
\* object, and an object made by two generators is among the scene's
CycleChecksAgreeWitness ==
    /\ ~IsNone(detected)
    /\ detected.inputId # detected.targetId
    /\ detected.inputId \in Range(ParentsFrom(graph.generators, detected.inputId, 1))
    /\ ~detected.valid
    /\ Len(graph.generators) = 2
    /\ Range(graph.generators[1].outputIds) \cap Range(graph.generators[2].outputIds) # {}

\* where the object's translate puts it: the origin without a translate
PositionOf(obj) ==
    IF IsUndefined(obj.translate) THEN <<0, 0>> ELSE <<obj.translate.x, obj.translate.y>>

\* C30: after a play() at timeline.t = 0 and any frames, pause() and play()
\* calls, resetTimeline() leaves timeline.t = 0 and isPlaying = false and
\* every object where that play() found it, an object that had no
\* transform.translate then included.
ResetIsRoundTrip ==
    (~IsNone(app) /\ app.wasReset /\ ~IsNone(app.atPlay)) =>
        /\ app.t = 0
        /\ ~app.isPlaying
        /\ \A i \in DOMAIN app.objects :
              PositionOf(app.objects[i]) = PositionOf(app.atPlay.objects[i])
====
